---- MODULE Spec2Model ----
(***************************************************************************)
(* A model of the aprio-swarm coordination core.                           *)
(*                                                                         *)
(*   SpecSwarm     SwarmCoordinator (swarm-core/src/coordinator.rs) with   *)
(*                 the SwarmWorker receive loops (swarm-worker/src/lib.rs) *)
(*                 attached to the inboxes register_worker hands out.      *)
(*   FairSwarm     SpecSwarm with weak fairness on the spawned tasks.      *)
(*   SpecEnhanced  EnhancedCoordinator (examples/enhanced-worker-system).  *)
(*   SpecDocWorker DocumentWorker (swarm-core/src/document_worker.rs).     *)
(*                                                                         *)
(* Every specification starts from the state after construction of all     *)
(* components; a specification's actions leave the other components'       *)
(* variables unchanged.                                                    *)
(***************************************************************************)
EXTENDS Integers, Sequences, FiniteSets, TLC

VARIABLES
    \* ---- SwarmCoordinator
    workers,          \* HashMap<Uuid, WorkerHandle>: id -> [chan, max_concurrent_tasks]
    firstWorker,      \* the entry workers.iter().next() yields ("none" when empty)
    task_queue,       \* Vec<Task>
    result_receiver,  \* Option<UnboundedReceiver<TaskResult>>: "some" | "taken"
    results,          \* the result channel's buffer
    coordPc,          \* position of start(): "idle" | "distributing" | "joining"
    submitted,        \* every Task handed to submit_task, by id
    \* ---- the task channels created by register_worker
    nextChan,         \* number of channels created so far
    inbox,            \* chan -> buffered tasks
    txAlive,          \* chan -> the WorkerHandle's task_sender still exists
    rxAlive,          \* chan -> the receiver still exists
    \* ---- SwarmWorker, one per channel
    wstatus,          \* chan -> WorkerStatus ("None" before construction)
    wpc,              \* chan -> "none" | "new" | "recv" | "busy" | "done" | "dropped"
    wtask,            \* chan -> the task inside process_task (NoTask otherwise)
    wdone,            \* chan -> number of results the worker has produced
    lastOp,           \* the operation that produced the current state, with its return
    \* ---- EnhancedCoordinator
    eworkers,         \* HashMap<Uuid, EnhancedWorkerConfig>
    etask_queue,      \* Vec<EnhancedTask>
    enextTask,        \* number of EnhancedTasks created so far
    elast,            \* the last EnhancedCoordinator operation, with what it printed
    \* ---- DocumentWorker
    supported_types,  \* Vec<DocumentType>, as a set
    current_load,     \* usize
    dlast,            \* the last process_document call: [doc, ret]
    \* ---- WorkerManager
    mworkers,         \* HashMap<Uuid, WorkerInstance>: the instances' statuses, in order of creation
    startup_configs,  \* Vec<WorkerStartupConfig>: the instance_count of each
    is_running,       \* bool
    mlast,            \* the last WorkerManager operation
    \* ---- swarm-comms: NatsBroker and MessageSubscriptionManager
    component,        \* which of the two a behaviour exercises (they share no state)
    max_message_size, \* NatsConfig.max_message_size
    nsubscriptions,   \* NatsBroker.subscriptions: subject -> channel (the stored sender)
    nstats,           \* NatsStats: the four counters
    msubscriptions,   \* MessageSubscriptionManager.subscriptions: subject -> channel
    mchan,            \* the mpsc channels of Message created so far, with the NATS
                      \* subscription and the delivery task of those NatsBroker created
    nextMsg,          \* number of messages created so far (the clock of their timestamps)
    clast,            \* the last swarm-comms operation, with its return
    closing,          \* NatsBroker::close: "open", "reading" (it holds the read
                      \* guard of the subscriptions lock) or "closed"
    \* ---- SwarmDocumentReader (swarm-documents) and the watched directory
    files,            \* the files of the directory: path -> [mtime, size_bytes]
    fsClock,          \* the clock of the file system's modification times
    processed_files,  \* HashMap<PathBuf, DateTime<Utc>>
    rstats,           \* DocumentReaderStats: total_documents_read and error_count
    rlast,            \* the last reader operation, with its return
    \* ---- MessageSerializer and MessageValidator (swarm-comms)
    envelope,         \* Option<Message>: the last message built
    nextEnv,          \* the number of messages built
    slast,            \* the last serializer or validator call, with its return
    \* ---- FileDiscoveryService (swarm-documents), on the same directory
    discovered_files, \* HashMap<PathBuf, FileInfo>
    dstats,           \* FileDiscoveryStats: total_files_discovered and
                      \* total_directories_scanned
    \* ---- SwarmWorker::process_task (swarm-worker) on the tasks' payloads
    overflow_checks,  \* the build's profile: TRUE for dev, FALSE for release
    ptask,            \* Option<Task>: the task process_task was called with
    presult,          \* Option<TaskResult>: the last result built
    pstatus,          \* the worker's WorkerStatus
    ppc,              \* position of start(): "recv" | "busy" | "panicked"
    pdone             \* number of results built

swarmVars == <<workers, firstWorker, task_queue, result_receiver, results, coordPc,
               submitted, nextChan, inbox, txAlive, rxAlive, wstatus, wpc, wtask,
               wdone, lastOp>>
enhVars == <<eworkers, etask_queue, enextTask, elast>>
docVars == <<supported_types, current_load, dlast>>
mgrVars == <<mworkers, startup_configs, is_running, mlast>>
commsVars == <<component, max_message_size, nsubscriptions, nstats, msubscriptions,
               mchan, nextMsg, clast, closing>>
readerVars == <<files, fsClock, processed_files, rstats, rlast>>
serVars == <<envelope, nextEnv, slast>>
discVars == <<discovered_files, dstats>>
procVars == <<overflow_checks, ptask, presult, pstatus, ppc, pdone>>
vars == <<swarmVars, enhVars, docVars, mgrVars, commsVars, readerVars, serVars, discVars, procVars>>

----------------------------------------------------------------------------
(* Bounds of the model *)

MaxTasks == 2      \* tasks handed to SwarmCoordinator::submit_task
MaxChans == 2      \* register_worker calls (each creates one channel)
MaxETasks == 2     \* tasks handed to EnhancedCoordinator::submit_task
MaxInstances == 3  \* WorkerInstances a WorkerManager creates
MaxConfigs == 2    \* add_worker_config calls
MaxMsgs == 2       \* messages created by the publishers of swarm-comms
MaxSubs == 2       \* create_subscription calls
MaxNatsSubs == 1   \* subscribe_to_subject calls
MaxWrites == 3     \* writes to the files of the watched directory
MaxErrors == 2     \* scans go on while error_count is below this
MaxEnvelopes == 2  \* messages built by the serializer and its callers
MaxScans == 3      \* scan iterations of FileDiscoveryService::start
MaxProcessed == 2  \* results built by the worker of process_task

WorkerIds == {"w1", "w2"}
Chans == 1..MaxChans

----------------------------------------------------------------------------
(* Types of swarm-core *)

\* enum TaskPriority { Low = 1, Normal = 2, High = 3, Critical = 4 }
Low == 1
Normal == 2
High == 3
Critical == 4
TaskPriority == {Low, Normal, High, Critical}

\* The task types SwarmWorker::process_task distinguishes.
TaskTypes == {"echo", "compute", "error", "other"}

\* The tasks submitters hand in: [task_type, priority, max_retries].
SubmitInputs ==
    { [ty |-> "echo", prio |-> Low, maxr |-> 0],
      [ty |-> "error", prio |-> Critical, maxr |-> 3] }

\* The registrations callers make: [worker_id, config.max_concurrent_tasks].
RegisterInputs ==
    { [id |-> "w1", max |-> 0],
      [id |-> "w2", max |-> 1] }

\* struct Task: the fields the coordinator and the worker read.  A submitter
\* creates it Pending with retry_count 0.
Task(id, ty, prio, maxr) ==
    [id |-> id, task_type |-> ty, priority |-> prio, status |-> "Pending",
     retry_count |-> 0, max_retries |-> maxr]

NoTask == [id |-> 0]

\* struct TaskResult: task_id and status.
TaskResult(id, st) == [task_id |-> id, status |-> st]

----------------------------------------------------------------------------
(* SwarmCoordinator *)

InitSwarm ==
    /\ workers = <<>>
    /\ firstWorker = "none"
    /\ task_queue = <<>>
    /\ result_receiver = "some"
    /\ results = <<>>
    /\ coordPc = "idle"
    /\ submitted = <<>>
    /\ nextChan = 0
    /\ inbox = [c \in Chans |-> <<>>]
    /\ txAlive = [c \in Chans |-> FALSE]
    /\ rxAlive = [c \in Chans |-> FALSE]
    /\ wstatus = [c \in Chans |-> "None"]
    /\ wpc = [c \in Chans |-> "none"]
    /\ wtask = [c \in Chans |-> NoTask]
    /\ wdone = [c \in Chans |-> 0]
    /\ lastOp = [op |-> "new"]

\* HashMap::insert / HashMap::remove on a function.
MapInsert(m, k, v) == [x \in (DOMAIN m) \cup {k} |-> IF x = k THEN v ELSE m[x]]
MapRemove(m, k) == [x \in (DOMAIN m) \ {k} |-> m[x]]

\* The iteration order of a HashMap is unspecified; it is fixed while the map
\* is not modified and may be anything after an insert or a remove.
FirstOf(m) == IF DOMAIN m = {} THEN {"none"} ELSE DOMAIN m

\* register_worker: creates the task channel, stores the sender in a new
\* WorkerHandle under worker_id (HashMap::insert replaces, and so drops, a
\* handle already stored under that id) and returns the receiver, which the
\* caller gives to SwarmWorker::with_channels.
register_worker(worker_id, max) ==
    /\ coordPc = "idle"
    /\ nextChan < MaxChans
    /\ LET c == nextChan + 1
           old == IF worker_id \in DOMAIN workers THEN {workers[worker_id].chan} ELSE {}
       IN /\ nextChan' = c
          /\ workers' = MapInsert(workers, worker_id,
                                  [chan |-> c, max_concurrent_tasks |-> max])
          /\ txAlive' = [x \in Chans |-> IF x = c THEN TRUE
                                         ELSE IF x \in old THEN FALSE ELSE txAlive[x]]
          /\ rxAlive' = [rxAlive EXCEPT ![c] = TRUE]
          /\ wstatus' = [wstatus EXCEPT ![c] = "Idle"]
          /\ wpc' = [wpc EXCEPT ![c] = "new"]
          /\ lastOp' = [op |-> "register_worker", id |-> worker_id, chan |-> c,
                        replaced |-> old]
    /\ firstWorker' \in FirstOf(workers')
    /\ UNCHANGED <<task_queue, result_receiver, results, coordPc, submitted, inbox,
                   wtask, wdone>>
    /\ UNCHANGED <<enhVars, docVars, mgrVars, commsVars, readerVars, serVars, discVars, procVars>>

\* unregister_worker with the handle's sender kept alive elsewhere (a clone of
\* task_sender outliving the handle): the record goes, the inbox stays open.
unregister_worker_keeps_sender(worker_id) ==
    /\ coordPc = "idle"
    /\ IF worker_id \in DOMAIN workers
       THEN /\ workers' = MapRemove(workers, worker_id)
            /\ firstWorker' \in FirstOf(workers')
            /\ lastOp' = [op |-> "unregister_worker", id |-> worker_id, ret |-> TRUE,
                          chan |-> workers[worker_id].chan]
       ELSE /\ UNCHANGED <<workers, firstWorker>>
            /\ lastOp' = [op |-> "unregister_worker", id |-> worker_id, ret |-> FALSE,
                          chan |-> 0]
    /\ UNCHANGED <<task_queue, result_receiver, results, coordPc, submitted, nextChan,
                   inbox, txAlive, rxAlive, wstatus, wpc, wtask, wdone>>
    /\ UNCHANGED <<enhVars, docVars, mgrVars, commsVars, readerVars, serVars, discVars, procVars>>

\* unregister_worker returning true whether or not the id was registered.
unregister_worker_always_true(worker_id) ==
    /\ coordPc = "idle"
    /\ IF worker_id \in DOMAIN workers
       THEN /\ workers' = MapRemove(workers, worker_id)
            /\ txAlive' = [txAlive EXCEPT ![workers[worker_id].chan] = FALSE]
            /\ firstWorker' \in FirstOf(workers')
            /\ lastOp' = [op |-> "unregister_worker", id |-> worker_id, ret |-> TRUE,
                          chan |-> workers[worker_id].chan]
       ELSE /\ UNCHANGED <<workers, txAlive, firstWorker>>
            /\ lastOp' = [op |-> "unregister_worker", id |-> worker_id, ret |-> TRUE,
                          chan |-> 0]
    /\ UNCHANGED <<task_queue, result_receiver, results, coordPc, submitted, nextChan,
                   inbox, rxAlive, wstatus, wpc, wtask, wdone>>
    /\ UNCHANGED <<enhVars, docVars, mgrVars, commsVars, readerVars, serVars, discVars, procVars>>

\* unregister_worker: removes the handle (dropping its task_sender) and
\* returns whether there was one.
unregister_worker(worker_id) ==
    /\ coordPc = "idle"
    /\ IF worker_id \in DOMAIN workers
       THEN /\ workers' = MapRemove(workers, worker_id)
            /\ txAlive' = [txAlive EXCEPT ![workers[worker_id].chan] = FALSE]
            /\ firstWorker' \in FirstOf(workers')
            /\ lastOp' = [op |-> "unregister_worker", id |-> worker_id, ret |-> TRUE,
                          chan |-> workers[worker_id].chan]
       ELSE /\ UNCHANGED <<workers, txAlive, firstWorker>>
            /\ lastOp' = [op |-> "unregister_worker", id |-> worker_id, ret |-> FALSE,
                          chan |-> 0]
    /\ UNCHANGED <<task_queue, result_receiver, results, coordPc, submitted, nextChan,
                   inbox, rxAlive, wstatus, wpc, wtask, wdone>>
    /\ UNCHANGED <<enhVars, docVars, mgrVars, commsVars, readerVars, serVars, discVars, procVars>>

\* submit_task: pushes the task at the end of the queue.
submit_task(task) ==
    /\ coordPc = "idle"
    /\ task_queue' = Append(task_queue, task)
    /\ submitted' = Append(submitted, task)
    /\ lastOp' = [op |-> "submit_task", id |-> task.id]
    /\ UNCHANGED <<workers, firstWorker, result_receiver, results, coordPc, nextChan,
                   inbox, txAlive, rxAlive, wstatus, wpc, wtask, wdone>>
    /\ UNCHANGED <<enhVars, docVars, mgrVars, commsVars, readerVars, serVars, discVars, procVars>>

\* The loop of distribute_pending_tasks without the removal of a task that
\* was sent.
RECURSIVE DistributeLoopKeep(_, _, _, _)
DistributeLoopKeep(q, i, sendOk, acc) ==
    IF i > Len(q) THEN acc
    ELSE IF sendOk
         THEN [sent |-> Append(acc.sent, i), removed |-> acc.removed]
         ELSE DistributeLoopKeep(q, i + 1, sendOk,
                                 [sent |-> acc.sent, removed |-> Append(acc.removed, i)])

\* The for loop of distribute_pending_tasks from index i on: every task is sent
\* to the first worker of the map; a failed send (the receiver is gone) marks
\* the task for removal and goes on, a successful one marks it and breaks.
\* Yields [sent, removed]: the indices sent and the indices marked.
RECURSIVE DistributeLoop(_, _, _, _)
DistributeLoop(q, i, sendOk, acc) ==
    IF i > Len(q) THEN acc
    ELSE IF sendOk
         THEN [sent |-> Append(acc.sent, i), removed |-> Append(acc.removed, i)]
         ELSE DistributeLoop(q, i + 1, sendOk,
                             [sent |-> acc.sent, removed |-> Append(acc.removed, i)])

SeqRange(s) == {s[i] : i \in DOMAIN s}

\* Vec::remove of the marked indices.
RECURSIVE RemoveIndices(_, _, _)
RemoveIndices(q, idx, i) ==
    IF i > Len(q) THEN <<>>
    ELSE (IF i \in idx THEN <<>> ELSE <<q[i]>>) \o RemoveIndices(q, idx, i + 1)

\* distribute_pending_tasks
distribute_pending_tasks ==
    IF task_queue = <<>> \/ DOMAIN workers = {}
    THEN /\ UNCHANGED <<task_queue, inbox>>
         /\ lastOp' = [op |-> "distribute", sent |-> <<>>, dropped |-> <<>>, chan |-> 0]
    ELSE LET c == workers[firstWorker].chan
             r == DistributeLoop(task_queue, 1, rxAlive[c],
                                 [sent |-> <<>>, removed |-> <<>>])
             sentTasks == [k \in DOMAIN r.sent |-> task_queue[r.sent[k]]]
         IN /\ inbox' = [inbox EXCEPT ![c] = inbox[c] \o sentTasks]
            /\ task_queue' = RemoveIndices(task_queue, SeqRange(r.removed), 1)
            /\ lastOp' = [op |-> "distribute", sent |-> sentTasks, chan |-> c,
                          dropped |-> RemoveIndices(task_queue,
                                         (DOMAIN task_queue) \ (SeqRange(r.removed)
                                             \ SeqRange(r.sent)), 1)]

\* start(): takes the result receiver and spawns the result processor, then
\* enters distribute_tasks; without a receiver (a second call) it returns Ok.
start ==
    /\ coordPc = "idle"
    /\ IF result_receiver = "some"
       THEN /\ result_receiver' = "taken"
            /\ coordPc' = "distributing"
            /\ lastOp' = [op |-> "start", ran |-> TRUE]
       ELSE /\ UNCHANGED <<result_receiver, coordPc>>
            /\ lastOp' = [op |-> "start", ran |-> FALSE]
    /\ UNCHANGED <<workers, firstWorker, task_queue, results, submitted, nextChan, inbox,
                   txAlive, rxAlive, wstatus, wpc, wtask, wdone>>
    /\ UNCHANGED <<enhVars, docVars, mgrVars, commsVars, readerVars, serVars, discVars, procVars>>

\* One iteration of the loop of distribute_tasks: while the queue or the
\* registry is non-empty, distribute and sleep; otherwise leave the loop and
\* wait for the result processor.
distribute_tasks ==
    /\ coordPc = "distributing"
    /\ IF task_queue # <<>> \/ DOMAIN workers # {}
       THEN /\ distribute_pending_tasks
            /\ UNCHANGED coordPc
       ELSE /\ coordPc' = "joining"
            /\ lastOp' = [op |-> "distribution_complete"]
            /\ UNCHANGED <<task_queue, inbox>>
    /\ UNCHANGED <<workers, firstWorker, result_receiver, results, submitted, nextChan,
                   txAlive, rxAlive, wstatus, wpc, wtask, wdone>>
    /\ UNCHANGED <<enhVars, docVars, mgrVars, commsVars, readerVars, serVars, discVars, procVars>>

\* The caller drops the future of start() at one of its await points (a
\* timeout or select around it); the spawned result processor lives on.
cancel_start ==
    /\ coordPc \in {"distributing", "joining"}
    /\ coordPc' = "idle"
    /\ lastOp' = [op |-> "cancel_start"]
    /\ UNCHANGED <<workers, firstWorker, task_queue, result_receiver, results, submitted,
                   nextChan, inbox, txAlive, rxAlive, wstatus, wpc, wtask, wdone>>
    /\ UNCHANGED <<enhVars, docVars, mgrVars, commsVars, readerVars, serVars, discVars, procVars>>

\* The result processor spawned by start(): receives one result and logs it.
result_processor ==
    /\ result_receiver = "taken"
    /\ results # <<>>
    /\ results' = Tail(results)
    /\ lastOp' = [op |-> "result", task_id |-> Head(results).task_id,
                  status |-> Head(results).status]
    /\ UNCHANGED <<workers, firstWorker, task_queue, result_receiver, coordPc, submitted,
                   nextChan, inbox, txAlive, rxAlive, wstatus, wpc, wtask, wdone>>
    /\ UNCHANGED <<enhVars, docVars, mgrVars, commsVars, readerVars, serVars, discVars, procVars>>

----------------------------------------------------------------------------
(* SwarmWorker *)

\* The caller of register_worker discards the receiver without starting a
\* worker on it.
drop_receiver(c) ==
    /\ wpc[c] = "new"
    /\ wpc' = [wpc EXCEPT ![c] = "dropped"]
    /\ wstatus' = [wstatus EXCEPT ![c] = "None"]
    /\ rxAlive' = [rxAlive EXCEPT ![c] = FALSE]
    /\ lastOp' = [op |-> "drop_receiver", chan |-> c]
    /\ UNCHANGED <<workers, firstWorker, task_queue, result_receiver, results, coordPc,
                   submitted, nextChan, inbox, txAlive, wtask, wdone>>
    /\ UNCHANGED <<enhVars, docVars, mgrVars, commsVars, readerVars, serVars, discVars, procVars>>

\* SwarmWorker::start up to the first recv().await.
worker_start(c) ==
    /\ wpc[c] = "new"
    /\ wpc' = [wpc EXCEPT ![c] = "recv"]
    /\ wstatus' = [wstatus EXCEPT ![c] = "Running"]
    /\ lastOp' = [op |-> "worker_start", chan |-> c]
    /\ UNCHANGED <<workers, firstWorker, task_queue, result_receiver, results, coordPc,
                   submitted, nextChan, inbox, txAlive, rxAlive, wtask, wdone>>
    /\ UNCHANGED <<enhVars, docVars, mgrVars, commsVars, readerVars, serVars, discVars, procVars>>

\* task_receiver.recv().await: a buffered task, or None once the channel is
\* empty and its sender is gone; on a task process_task sets the status Busy,
\* on None the loop ends, start() sets Shutdown and drops the receiver.
worker_recv(c) ==
    /\ wpc[c] = "recv"
    /\ IF inbox[c] # <<>>
       THEN /\ inbox' = [inbox EXCEPT ![c] = Tail(inbox[c])]
            /\ wtask' = [wtask EXCEPT ![c] = Head(inbox[c])]
            /\ wstatus' = [wstatus EXCEPT ![c] = "Busy"]
            /\ wpc' = [wpc EXCEPT ![c] = "busy"]
            /\ lastOp' = [op |-> "worker_recv", chan |-> c, task_id |-> Head(inbox[c]).id]
            /\ UNCHANGED rxAlive
       ELSE /\ ~txAlive[c]
            /\ wstatus' = [wstatus EXCEPT ![c] = "Shutdown"]
            /\ wpc' = [wpc EXCEPT ![c] = "done"]
            /\ rxAlive' = [rxAlive EXCEPT ![c] = FALSE]
            /\ lastOp' = [op |-> "worker_shutdown", chan |-> c]
            /\ UNCHANGED <<inbox, wtask>>
    /\ UNCHANGED <<workers, firstWorker, task_queue, result_receiver, results, coordPc,
                   submitted, nextChan, txAlive, wdone>>
    /\ UNCHANGED <<enhVars, docVars, mgrVars, commsVars, readerVars, serVars, discVars, procVars>>

\* The match of process_task on the task type: Ok(..) gives Completed,
\* Err(..) gives Failed.
ProcessStatus(task) ==
    IF task.task_type = "echo" THEN "Completed"
    ELSE IF task.task_type = "compute" THEN "Completed"
    ELSE "Failed"

\* worker_finish sending the result twice.
worker_finish_twice(c) ==
    /\ wpc[c] = "busy"
    /\ wstatus' = [wstatus EXCEPT ![c] = "Idle"]
    /\ results' = results \o << TaskResult(wtask[c].id, ProcessStatus(wtask[c])),
                               TaskResult(wtask[c].id, ProcessStatus(wtask[c])) >>
    /\ wtask' = [wtask EXCEPT ![c] = NoTask]
    /\ wdone' = [wdone EXCEPT ![c] = wdone[c] + 1]
    /\ wpc' = [wpc EXCEPT ![c] = "recv"]
    /\ lastOp' = [op |-> "worker_finish", chan |-> c, task_id |-> wtask[c].id]
    /\ UNCHANGED <<workers, firstWorker, task_queue, result_receiver, coordPc, submitted,
                   nextChan, inbox, txAlive, rxAlive>>
    /\ UNCHANGED <<enhVars, docVars, mgrVars, commsVars, readerVars, serVars, discVars, procVars>>

\* The rest of process_task (status back to Idle, the TaskResult with the
\* task's id) and result_sender.send(result).  The result receiver is owned
\* by the coordinator or by its result processor, so the send succeeds.
worker_finish(c) ==
    /\ wpc[c] = "busy"
    /\ wstatus' = [wstatus EXCEPT ![c] = "Idle"]
    /\ results' = Append(results, TaskResult(wtask[c].id, ProcessStatus(wtask[c])))
    /\ wtask' = [wtask EXCEPT ![c] = NoTask]
    /\ wdone' = [wdone EXCEPT ![c] = wdone[c] + 1]
    /\ wpc' = [wpc EXCEPT ![c] = "recv"]
    /\ lastOp' = [op |-> "worker_finish", chan |-> c, task_id |-> wtask[c].id]
    /\ UNCHANGED <<workers, firstWorker, task_queue, result_receiver, coordPc, submitted,
                   nextChan, inbox, txAlive, rxAlive>>
    /\ UNCHANGED <<enhVars, docVars, mgrVars, commsVars, readerVars, serVars, discVars, procVars>>

\* A further call of SwarmWorker::start on a worker whose start() has returned:
\* the status is set to Running; task_receiver and result_sender were taken by
\* the first call, so the loop is skipped.
worker_start_again(c) ==
    /\ wpc[c] = "done"
    /\ wpc' = [wpc EXCEPT ![c] = "again"]
    /\ wstatus' = [wstatus EXCEPT ![c] = "Running"]
    /\ lastOp' = [op |-> "worker_start_again", chan |-> c]
    /\ UNCHANGED <<workers, firstWorker, task_queue, result_receiver, results, coordPc,
                   submitted, nextChan, inbox, txAlive, rxAlive, wtask, wdone>>
    /\ UNCHANGED <<enhVars, docVars, mgrVars, commsVars, readerVars, serVars, discVars, procVars>>

\* The end of that call: the status is set to Shutdown and start() returns.
worker_start_again_end(c) ==
    /\ wpc[c] = "again"
    /\ wpc' = [wpc EXCEPT ![c] = "done"]
    /\ wstatus' = [wstatus EXCEPT ![c] = "Shutdown"]
    /\ lastOp' = [op |-> "worker_shutdown", chan |-> c]
    /\ UNCHANGED <<workers, firstWorker, task_queue, result_receiver, results, coordPc,
                   submitted, nextChan, inbox, txAlive, rxAlive, wtask, wdone>>
    /\ UNCHANGED <<enhVars, docVars, mgrVars, commsVars, readerVars, serVars, discVars, procVars>>

----------------------------------------------------------------------------
(* EnhancedCoordinator (examples/enhanced-worker-system) *)

\* enum Capability and enum WorkerType: the values the model uses.
Capability == {"TextProcessing", "ModelServing"}
WorkerType == {"DocumentProcessor", "MLInference"}

\* Option<T>: None and Some(x)
None == <<>>
Some(x) == <<x>>

\* The EnhancedWorkerConfig values registrants use: any capability set, with
\* the limits and the performance profile main() gives the worker type.
EWorkerConfig(ty, caps) ==
    [max_concurrent_tasks |-> IF ty = "DocumentProcessor" THEN 5 ELSE 3,
     worker_type |-> ty,
     capabilities |-> caps,
     avg_processing_time_ms |-> IF ty = "DocumentProcessor" THEN 150 ELSE 300]
EWorkerConfigs == {EWorkerConfig(ty, caps) : ty \in WorkerType, caps \in SUBSET Capability}

\* The TaskRequirements values submitters use: any set of required
\* capabilities, without or with a preferred worker type and a time limit.
ETaskRequirements ==
    { [required_capabilities |-> caps, preferred_worker_type |-> o[1],
       max_processing_time_ms |-> o[2]] :
          caps \in SUBSET Capability,
          o \in {<<None, None>>, <<Some("DocumentProcessor"), Some(200)>>} }

EnhancedTask(id, req) == [id |-> id, requirements |-> req]

InitEnhanced ==
    /\ eworkers = <<>>
    /\ etask_queue = <<>>
    /\ enextTask = 0
    /\ elast = [op |-> "new"]

\* f32 scores, in hundredths.  Every value the scoring reaches for at most two
\* required capabilities (0, 0.3, 0.6 and their sums with 0.3 and 0.1) compares
\* in f32 as it does exactly; 0.0 / 0.0 is NaN, which every operation
\* propagates and every comparison rejects.
F32(v) == [nan |-> FALSE, v |-> v]
NaN == [nan |-> TRUE, v |-> 0]
FDiv(a, b) == IF b = 0 THEN NaN ELSE F32((100 * a) \div b)
FMul(x, w) == IF x.nan THEN NaN ELSE F32((x.v * w) \div 100)
FAdd(x, w) == IF x.nan THEN NaN ELSE F32(x.v + w)
FGt(x, y) == ~x.nan /\ ~y.nan /\ x.v > y.v

\* The weights of calculate_worker_score, in hundredths.
CapabilityWeight == 60
TypeWeight == 30
PerformanceWeight == 10

\* calculate_worker_score
calculate_worker_score(config, requirements) ==
    LET matching == Cardinality({cap \in requirements.required_capabilities :
                                    cap \in config.capabilities})
        capability_match == FDiv(matching,
                                 Cardinality(requirements.required_capabilities))
        s1 == FAdd(FMul(capability_match, CapabilityWeight), 0)
        s2 == IF /\ requirements.preferred_worker_type # None
                 /\ config.worker_type = requirements.preferred_worker_type[1]
              THEN FAdd(s1, TypeWeight) ELSE s1
        s3 == IF /\ requirements.max_processing_time_ms # None
                 /\ config.avg_processing_time_ms <= requirements.max_processing_time_ms[1]
              THEN FAdd(s2, PerformanceWeight) ELSE s2
    IN s3

\* The iteration orders a HashMap with these keys can have.
Orders(S) == {o \in [1..Cardinality(S) -> S] : \A i, j \in DOMAIN o : i # j => o[i] # o[j]}

\* The loop of find_best_worker_for_task over the map in iteration order
\* `order`, from position i with the best so far.
RECURSIVE BestLoop(_, _, _, _, _)
BestLoop(order, i, task, best_worker, best_score) ==
    IF i > Len(order) THEN best_worker
    ELSE LET score == calculate_worker_score(eworkers[order[i]], task.requirements)
         IN IF FGt(score, best_score)
            THEN BestLoop(order, i + 1, task, Some(order[i]), score)
            ELSE BestLoop(order, i + 1, task, best_worker, best_score)

\* find_best_worker_for_task: Some(worker_id) or None
find_best_worker_for_task(order, task) == BestLoop(order, 1, task, None, F32(0))

\* EnhancedCoordinator::register_worker
eregister_worker(worker_id, config) ==
    /\ eworkers' = MapInsert(eworkers, worker_id, config)
    /\ elast' = [op |-> "register_worker", id |-> worker_id]
    /\ UNCHANGED <<etask_queue, enextTask>>
    /\ UNCHANGED <<swarmVars, docVars, mgrVars, commsVars, readerVars, serVars, discVars, procVars>>

\* EnhancedCoordinator::submit_task
esubmit_task(task) ==
    /\ etask_queue' = Append(etask_queue, task)
    /\ enextTask' = enextTask + 1
    /\ elast' = [op |-> "submit_task", id |-> task.id]
    /\ UNCHANGED eworkers
    /\ UNCHANGED <<swarmVars, docVars, mgrVars, commsVars, readerVars, serVars, discVars, procVars>>

\* The loop of process_all_tasks without the push that puts an unassigned task
\* back.
RECURSIVE ProcessLoopDrop(_, _, _)
ProcessLoopDrop(order, q, assigned) ==
    IF q = <<>> THEN [queue |-> q, assigned |-> assigned, unassigned |-> <<>>]
    ELSE LET task == q[Len(q)]
             rest == SubSeq(q, 1, Len(q) - 1)
             worker_id == find_best_worker_for_task(order, task)
         IN IF worker_id # None
            THEN ProcessLoopDrop(order, rest,
                                 Append(assigned, [task |-> task, worker |-> worker_id[1]]))
            ELSE [queue |-> rest, assigned |-> assigned, unassigned |-> <<task>>]

\* The while loop of process_all_tasks on queue q: pop the last task; with a
\* best worker it is assigned, without one it is pushed back and the loop
\* ends.  Yields [queue, assigned, unassigned].
RECURSIVE ProcessLoop(_, _, _)
ProcessLoop(order, q, assigned) ==
    IF q = <<>> THEN [queue |-> q, assigned |-> assigned, unassigned |-> <<>>]
    ELSE LET task == q[Len(q)]
             rest == SubSeq(q, 1, Len(q) - 1)
             worker_id == find_best_worker_for_task(order, task)
         IN IF worker_id # None
            THEN ProcessLoop(order, rest,
                             Append(assigned, [task |-> task, worker |-> worker_id[1]]))
            ELSE [queue |-> Append(rest, task), assigned |-> assigned,
                  unassigned |-> <<task>>]

\* process_all_tasks
process_all_tasks(order) ==
    LET r == ProcessLoop(order, etask_queue, <<>>)
    IN /\ etask_queue' = r.queue
       /\ elast' = [op |-> "process_all_tasks", assigned |-> r.assigned,
                    unassigned |-> r.unassigned]
       /\ UNCHANGED <<eworkers, enextTask>>
       /\ UNCHANGED <<swarmVars, docVars, mgrVars, commsVars, readerVars, serVars, discVars, procVars>>

----------------------------------------------------------------------------
(* DocumentWorker (swarm-core/src/document_worker.rs) *)

DocumentType == {"Pdf", "Word", "Text", "Html", "Markdown", "Unknown"}

\* What extraction looks for in Document.content.
Contents == {"plain", "corrupted", "password"}

\* DocumentWorker::new sets max_concurrent_documents to 10.
max_concurrent_documents == 10

\* DocumentWorker::new(worker_type, supported_types)
InitDocWorker ==
    /\ supported_types \in SUBSET DocumentType
    /\ current_load = 0
    /\ dlast = [op |-> "new"]

can_process(document_type) == document_type \in supported_types

\* has_capacity with <= for <.
has_capacity_inclusive == current_load <= max_concurrent_documents

has_capacity == current_load < max_concurrent_documents

\* extract_content: Ok or the error of the failing extraction.
extract_content(document) ==
    IF document.document_type = "Pdf" /\ document.content = "corrupted"
    THEN "Err: PDF file appears to be corrupted"
    ELSE IF document.document_type = "Word" /\ document.content = "password"
    THEN "Err: Word document is password protected"
    ELSE IF document.document_type = "Unknown"
    THEN "Err: Cannot process unknown document type"
    ELSE "Ok"

\* process_document testing the capacity before the document type.
process_document_capacity_first(document) ==
    /\ UNCHANGED <<swarmVars, enhVars, mgrVars, commsVars, readerVars, serVars, discVars, procVars>>
    /\ IF ~has_capacity
       THEN /\ dlast' = [op |-> "process_document", doc |-> document,
                         ret |-> "Err: is at capacity"]
            /\ UNCHANGED <<supported_types, current_load>>
       ELSE IF ~can_process(document.document_type)
       THEN /\ dlast' = [op |-> "process_document", doc |-> document,
                         ret |-> "Err: cannot process document type"]
            /\ UNCHANGED <<supported_types, current_load>>
       ELSE LET result == extract_content(document)
            IN /\ current_load' = IF result = "Ok" THEN (current_load + 1) - 1
                                  ELSE current_load + 1
               /\ dlast' = [op |-> "process_document", doc |-> document, ret |-> result]
               /\ UNCHANGED supported_types

\* process_document: the two early returns, then the load is incremented, the
\* content extracted (`?` returns its error at once) and the load decremented.
process_document(document) ==
    /\ UNCHANGED <<swarmVars, enhVars, mgrVars, commsVars, readerVars, serVars, discVars, procVars>>
    /\ IF ~can_process(document.document_type)
       THEN /\ dlast' = [op |-> "process_document", doc |-> document,
                         ret |-> "Err: cannot process document type"]
            /\ UNCHANGED <<supported_types, current_load>>
       ELSE IF ~has_capacity
       THEN /\ dlast' = [op |-> "process_document", doc |-> document,
                         ret |-> "Err: is at capacity"]
            /\ UNCHANGED <<supported_types, current_load>>
       ELSE LET result == extract_content(document)
            IN /\ current_load' = IF result = "Ok" THEN (current_load + 1) - 1
                                  ELSE current_load + 1
               /\ dlast' = [op |-> "process_document", doc |-> document, ret |-> result]
               /\ UNCHANGED supported_types

----------------------------------------------------------------------------
(* WorkerManager (swarm-core/src/worker_manager.rs) *)

\* The instance_count values of the configurations callers add.
InstanceCounts == {1, 2}

InitManager ==
    /\ mworkers = <<>>
    /\ startup_configs = <<>>
    /\ is_running = FALSE
    /\ mlast = [op |-> "new"]

\* add_worker_config
add_worker_config(instance_count) ==
    /\ startup_configs' = Append(startup_configs, instance_count)
    /\ mlast' = [op |-> "add_worker_config"]
    /\ UNCHANGED <<mworkers, is_running>>
    /\ UNCHANGED <<swarmVars, enhVars, docVars, commsVars, readerVars, serVars, discVars, procVars>>

\* start_worker_instances and start_worker for the configurations from index i
\* on: each inserts instance_count new instances in status Running.
RECURSIVE StartInstances(_, _, _)
StartInstances(configs, i, ws) ==
    IF i > Len(configs) THEN ws
    ELSE StartInstances(configs, i + 1, ws \o [k \in 1..configs[i] |-> "Running"])

\* start_all_workers
start_all_workers ==
    /\ is_running' = TRUE
    /\ mworkers' = StartInstances(startup_configs, 1, mworkers)
    /\ mlast' = [op |-> "start_all_workers"]
    /\ UNCHANGED startup_configs
    /\ UNCHANGED <<swarmVars, enhVars, docVars, commsVars, readerVars, serVars, discVars, procVars>>

\* shutdown_all
shutdown_all ==
    /\ mworkers' = [k \in DOMAIN mworkers |-> "Shutdown"]
    /\ is_running' = FALSE
    /\ mlast' = [op |-> "shutdown_all"]
    /\ UNCHANGED startup_configs
    /\ UNCHANGED <<swarmVars, enhVars, docVars, commsVars, readerVars, serVars, discVars, procVars>>

----------------------------------------------------------------------------
(* swarm-comms: NatsBroker (nats_broker.rs) and MessageSubscriptionManager
   (message_subscription.rs).  The NATS server is outside the repository: a
   publish the client accepts reaches, in order, every NATS subscription on the
   subject that is still held, and the client may refuse any call. *)

\* Uuid::nil() and a Uuid made by new_v4 for the n-th message.
NilId == <<>>
NewId(n) == <<n>>

\* Subscriptions and publications are on the subject "t".
SubscribeSubjects == {"t"}
SubjectLen(subject) == Len(subject)

\* The characters serde_json writes between the brackets of a Vec<u8>: the
\* decimal digits of each byte and a comma between two bytes.
ByteDigits(b) == IF b < 10 THEN 1 ELSE IF b < 100 THEN 2 ELSE 3
RECURSIVE PayloadLen(_)
PayloadLen(payload) ==
    IF payload = <<>> THEN 0
    ELSE IF Len(payload) = 1 THEN ByteDigits(payload[1])
    ELSE ByteDigits(Head(payload)) + 1 + PayloadLen(Tail(payload))

\* struct Message as the callers of the broker build it: without headers and
\* without a ttl; the timestamp is the number of the message.
Message(id, subject, payload, timestamp) ==
    [id |-> id, subject |-> subject, payload |-> payload, headers |-> <<>>,
     timestamp |-> timestamp, ttl_ms |-> None]

\* The messages a caller builds as the n-th message and gives to
\* publish_message: well-formed, with a payload of one byte (1 or 10).
MessagesAt(n) ==
    {Message(NewId(n), "t", <<1>>, n), Message(NewId(n), "t", <<10>>, n)}

\* The arguments of MessageBroker::publish.
PublishInputs == {[subject |-> "t", payload |-> <<>>]}

\* The messages given to MessageSubscriptionManager::send_message.
SendInputs(n) == {Message(NewId(n), "t", <<1>>, n)}

\* Length of the JSON serde_json writes for a Message with an empty subject, an
\* empty payload ("[]"), no header, a whole-second timestamp and no ttl.
EnvelopeLen == 133

\* The lengths of the headers added up: of the values alone, or (entries) of
\* the entries "key":"value" of the JSON object with a comma after each.
RECURSIVE HeadersLen(_, _)
HeadersLen(headers, entries) ==
    IF DOMAIN headers = {} THEN 0
    ELSE LET k == CHOOSE x \in DOMAIN headers : TRUE
         IN Len(headers[k]) + (IF entries THEN Len(k) + 6 ELSE 0)
                + HeadersLen([x \in DOMAIN headers \ {k} |-> headers[x]], entries)

\* serde_json::to_vec(message): the bytes, as the fields they encode and their
\* number (a subject adds its characters, a payload its digits and commas,
\* the headers their entries without the last comma, a ttl its digits in
\* place of null).
to_vec(message) ==
    [json |-> <<message.id, message.subject, message.payload, message.headers,
                message.timestamp, message.ttl_ms>>,
     len |-> EnvelopeLen + SubjectLen(message.subject)
                 + PayloadLen(message.payload)
                 + (IF DOMAIN message.headers = {} THEN 0
                    ELSE HeadersLen(message.headers, TRUE) - 1)
                 + (IF message.ttl_ms = None THEN 0
                    ELSE (CHOOSE d \in 1..20 :
                              /\ 10 ^ (d - 1) <= message.ttl_ms[1] \/ d = 1
                              /\ message.ttl_ms[1] < 10 ^ d) - 4)]

\* Bytes on a subject that are not the JSON of a Message.
Malformed == [json |-> <<>>, len |-> 1]

\* serde_json::from_slice::<Message>(bytes): Some(message) for Ok, None for Err.
from_slice(bytes) ==
    IF Len(bytes.json) = 6
    THEN Some([id |-> bytes.json[1], subject |-> bytes.json[2],
               payload |-> bytes.json[3], headers |-> bytes.json[4],
               timestamp |-> bytes.json[5], ttl_ms |-> bytes.json[6]])
    ELSE None

\* NatsConfig.max_message_size of the broker under test.
MaxMessageSizes == {EnvelopeLen + 2}

\* A channel made by mpsc::unbounded_channel::<Message>(): its buffer and
\* whether its receiver exists; for a NatsBroker channel also the state of the
\* delivery task ("running", "ended", "none" when never spawned) and the
\* messages NATS holds for the task's subscription.  closed records the clock
\* at the unsubscribe or remove_subscription that closed the subscription.
NewChannel(owner, subject, task, rx) ==
    [owner |-> owner, subject |-> subject, buf |-> <<>>, rxAlive |-> rx, task |-> task,
     pending |-> <<>>, closed |-> None]

\* A sender of channel i exists: the one stored in the owner's map under the
\* subject, or the one the delivery task holds.
SenderAlive(ch, nmap, mmap, i) ==
    IF ch[i].owner = "NatsBroker"
    THEN \/ ch[i].task = "running"
         \/ (ch[i].subject \in DOMAIN nmap /\ nmap[ch[i].subject] = i)
    ELSE ch[i].subject \in DOMAIN mmap /\ mmap[ch[i].subject] = i

\* The two components of swarm-comms.
Components == {"NatsBroker", "Manager"}

\* The channels `owner` has created.
ChannelsOf(owner) == {i \in DOMAIN mchan : mchan[i].owner = owner}

\* NatsBroker::new and MessageSubscriptionManager::new
InitComms ==
    /\ component \in Components
    /\ max_message_size \in MaxMessageSizes
    /\ nsubscriptions = <<>>
    /\ nstats = [messages_sent |-> 0, messages_received |-> 0,
                 active_subscriptions |-> 0, error_count |-> 0]
    /\ msubscriptions = <<>>
    /\ mchan = <<>>
    /\ nextMsg = 0
    /\ closing = "open"
    /\ clast = [op |-> "new"]

\* NATS hands the bytes to every subscription held on the subject.
Deliver(ch, subject, bytes) ==
    [i \in DOMAIN ch |->
        IF ch[i].owner = "NatsBroker" /\ ch[i].task = "running" /\ ch[i].subject = subject
        THEN [ch[i] EXCEPT !.pending = Append(@, bytes)]
        ELSE ch[i]]

\* MessageValidator::validate_message_size: "Ok" or "Err".
validate_message_size(message, max_size) ==
    LET total_size == Len(message.payload) + SubjectLen(message.subject)
                          + HeadersLen(message.headers, FALSE)
    IN IF total_size > max_size THEN "Err" ELSE "Ok"

\* The size check of publish_message made with >= in place of >.
TooLargeInclusive(len, max_size) == len >= max_size

\* The size check of publish_message.
TooLarge(len, max_size) == len > max_size

\* The body of publish_message, called as `op`.
PublishMessage(op, subject, message) ==
    LET serialized == to_vec(message)
    IN /\ nextMsg' = message.timestamp
       /\ IF TooLarge(serialized.len, max_message_size)
          THEN /\ clast' = [op |-> op, subject |-> subject, message |-> message,
                            ret |-> "MessageTooLarge",
                            detail |-> <<serialized.len, max_message_size>>,
                            sent |-> <<>>]
               /\ UNCHANGED <<mchan, nstats>>
          ELSE \E ok \in BOOLEAN :
                   IF ok
                   THEN /\ mchan' = Deliver(mchan, subject, serialized)
                        /\ nstats' = [nstats EXCEPT !.messages_sent = @ + 1]
                        /\ clast' = [op |-> op, subject |-> subject,
                                     message |-> message, ret |-> "Ok",
                                     detail |-> <<>>, sent |-> <<serialized>>]
                   ELSE /\ clast' = [op |-> op, subject |-> subject,
                                     message |-> message, ret |-> "Nats",
                                     detail |-> <<>>, sent |-> <<>>]
                        /\ UNCHANGED <<mchan, nstats>>
       /\ UNCHANGED <<component, closing, max_message_size, nsubscriptions, msubscriptions>>
       /\ UNCHANGED <<swarmVars, enhVars, docVars, mgrVars, readerVars, serVars, discVars, procVars>>

\* NatsBroker::publish_message
publish_message(subject, message) == PublishMessage("publish_message", subject, message)

\* MessageBroker::publish: wraps the bytes in a Message with a new id and the
\* subject, and calls publish_message.
publish(subject, payload) ==
    PublishMessage("publish", subject,
                   Message(NewId(nextMsg + 1), subject, payload, nextMsg + 1))

\* Another NATS client publishes bytes that are no Message on the subject.
foreign_publish(subject) ==
    /\ nextMsg' = nextMsg + 1
    /\ mchan' = Deliver(mchan, subject, Malformed)
    /\ clast' = [op |-> "foreign_publish", subject |-> subject]
    /\ UNCHANGED <<component, closing, max_message_size, nsubscriptions, nstats, msubscriptions>>
    /\ UNCHANGED <<swarmVars, enhVars, docVars, mgrVars, readerVars, serVars, discVars, procVars>>

\* tokio's RwLock::write waits while a read guard of the lock exists.
WriteLockFree == closing # "reading"

\* NatsBroker::subscribe_to_subject: stores a clone of the sender under the
\* subject, subscribes at NATS (an error returns here, dropping the channel's
\* ends but not the stored clone), spawns the delivery task with the sender
\* and the NATS subscription, counts the subscription and returns the receiver.
subscribe_to_subject(subject) ==
    /\ WriteLockFree
    /\ \E ok \in BOOLEAN :
           LET i == Len(mchan) + 1
           IN /\ nsubscriptions' = MapInsert(nsubscriptions, subject, i)
              /\ IF ok
                 THEN /\ mchan' = Append(mchan, NewChannel("NatsBroker", subject,
                                                           "running", TRUE))
                      /\ nstats' = [nstats EXCEPT !.active_subscriptions = @ + 1]
                      /\ clast' = [op |-> "subscribe_to_subject", subject |-> subject,
                                   ret |-> "Ok", chan |-> i]
                 ELSE /\ mchan' = Append(mchan, NewChannel("NatsBroker", subject,
                                                           "none", FALSE))
                      /\ clast' = [op |-> "subscribe_to_subject", subject |-> subject,
                                   ret |-> "Nats", chan |-> i]
                      /\ UNCHANGED nstats
    /\ UNCHANGED <<component, closing, max_message_size, msubscriptions, nextMsg>>
    /\ UNCHANGED <<swarmVars, enhVars, docVars, mgrVars, readerVars, serVars, discVars, procVars>>

\* The delivery task ending at bytes that are no Message, as it does at a
\* failed send.
delivery_task_stops(i) ==
    /\ i \in DOMAIN mchan
    /\ mchan[i].task = "running"
    /\ mchan[i].pending # <<>>
    /\ LET message == from_slice(Head(mchan[i].pending))
       IN IF message # None /\ mchan[i].rxAlive
          THEN /\ mchan' = [mchan EXCEPT ![i].pending = Tail(@),
                                         ![i].buf = Append(@, message[1])]
               /\ nstats' = [nstats EXCEPT !.messages_received = @ + 1]
               /\ clast' = [op |-> "delivery_task", chan |-> i, ret |-> "sent"]
          ELSE /\ mchan' = [mchan EXCEPT ![i].pending = <<>>, ![i].task = "ended"]
               /\ nstats' = [nstats EXCEPT !.error_count =
                                 IF message = None THEN @ + 1 ELSE @]
               /\ clast' = [op |-> "delivery_task", chan |-> i,
                            ret |-> IF message = None THEN "error" ELSE "break"]
    /\ UNCHANGED <<component, closing, max_message_size, nsubscriptions, msubscriptions, nextMsg>>
    /\ UNCHANGED <<swarmVars, enhVars, docVars, mgrVars, readerVars, serVars, discVars, procVars>>

\* One iteration of the delivery task of channel i: the next NATS message is
\* deserialized; a Message is sent to the receiver and counted, and a failed
\* send (the receiver is gone) ends the task, which drops the NATS
\* subscription; other bytes are counted as an error.
delivery_task(i) ==
    /\ i \in DOMAIN mchan
    /\ mchan[i].task = "running"
    /\ mchan[i].pending # <<>>
    /\ LET message == from_slice(Head(mchan[i].pending))
       IN IF message # None
          THEN IF mchan[i].rxAlive
               THEN /\ mchan' = [mchan EXCEPT ![i].pending = Tail(@),
                                              ![i].buf = Append(@, message[1])]
                    /\ nstats' = [nstats EXCEPT !.messages_received = @ + 1]
                    /\ clast' = [op |-> "delivery_task", chan |-> i, ret |-> "sent"]
               ELSE /\ mchan' = [mchan EXCEPT ![i].pending = <<>>, ![i].task = "ended"]
                    /\ clast' = [op |-> "delivery_task", chan |-> i, ret |-> "break"]
                    /\ UNCHANGED nstats
          ELSE /\ mchan' = [mchan EXCEPT ![i].pending = Tail(@)]
               /\ nstats' = [nstats EXCEPT !.error_count = @ + 1]
               /\ clast' = [op |-> "delivery_task", chan |-> i, ret |-> "error"]
    /\ UNCHANGED <<component, closing, max_message_size, nsubscriptions, msubscriptions, nextMsg>>
    /\ UNCHANGED <<swarmVars, enhVars, docVars, mgrVars, readerVars, serVars, discVars, procVars>>

\* The channels of `owner` on the subject, marked closed at the current clock.
MarkClosed(ch, owner, subject) ==
    [i \in DOMAIN ch |->
        IF ch[i].owner = owner /\ ch[i].subject = subject /\ ch[i].closed = None
        THEN [ch[i] EXCEPT !.closed = Some(nextMsg)]
        ELSE ch[i]]

\* usize::saturating_sub(1)
SaturatingDec(n) == IF n = 0 THEN 0 ELSE n - 1

\* NatsBroker::unsubscribe: takes the write lock of the subscriptions, removes
\* the stored sender and decrements the counter.
unsubscribe(subject) ==
    /\ WriteLockFree
    /\ nsubscriptions' = MapRemove(nsubscriptions, subject)
    /\ nstats' = [nstats EXCEPT !.active_subscriptions = SaturatingDec(@)]
    /\ mchan' = MarkClosed(mchan, "NatsBroker", subject)
    /\ clast' = [op |-> "unsubscribe", subject |-> subject, ret |-> "Ok"]
    /\ UNCHANGED <<component, closing, max_message_size, msubscriptions, nextMsg>>
    /\ UNCHANGED <<swarmVars, enhVars, docVars, mgrVars, readerVars, serVars, discVars, procVars>>

\* NatsBroker::close(self), its first step: it takes the read lock of the
\* subscriptions and keeps the guard for its loop over the keys.
close ==
    /\ component = "NatsBroker"
    /\ closing = "open"
    /\ closing' = "reading"
    /\ clast' = [op |-> "close", ret |-> "pending"]
    /\ UNCHANGED <<component, max_message_size, nsubscriptions, nstats, msubscriptions,
                   mchan, nextMsg>>
    /\ UNCHANGED <<swarmVars, enhVars, docVars, mgrVars, readerVars, serVars, discVars, procVars>>

\* The rest of close: for a tracked subject it awaits unsubscribe(subject)
\* with the read guard still held; with no subject left it drops the guard,
\* marks the broker disconnected and returns Ok.
close_loop ==
    /\ closing = "reading"
    /\ IF DOMAIN nsubscriptions # {}
       THEN \E subject \in DOMAIN nsubscriptions : unsubscribe(subject)
       ELSE /\ closing' = "closed"
            /\ clast' = [op |-> "close", ret |-> "Ok"]
            /\ UNCHANGED <<component, max_message_size, nsubscriptions, nstats,
                           msubscriptions, mchan, nextMsg>>
            /\ UNCHANGED <<swarmVars, enhVars, docVars, mgrVars, readerVars, serVars, discVars, procVars>>

\* NatsMessageSubscription::next_message, or try_recv on the receiver: the
\* oldest buffered message, or None when the buffer is empty (Empty and
\* Disconnected alike).
next_message(i) ==
    /\ i \in DOMAIN mchan
    /\ mchan[i].rxAlive
    /\ IF mchan[i].buf # <<>>
       THEN /\ mchan' = [mchan EXCEPT ![i].buf = Tail(@)]
            /\ clast' = [op |-> "next_message", chan |-> i,
                         ret |-> Some(Head(mchan[i].buf))]
       ELSE /\ clast' = [op |-> "next_message", chan |-> i, ret |-> None]
            /\ UNCHANGED mchan
    /\ UNCHANGED <<component, closing, max_message_size, nsubscriptions, nstats, msubscriptions,
                   nextMsg>>
    /\ UNCHANGED <<swarmVars, enhVars, docVars, mgrVars, readerVars, serVars, discVars, procVars>>

\* NatsMessageSubscription::unsubscribe(self), or the receiver going out of
\* scope: the receiver is dropped with what it buffered.
drop_subscription(i) ==
    /\ i \in DOMAIN mchan
    /\ mchan[i].rxAlive
    /\ mchan' = [mchan EXCEPT ![i].rxAlive = FALSE, ![i].buf = <<>>]
    /\ clast' = [op |-> "drop_subscription", chan |-> i]
    /\ UNCHANGED <<component, closing, max_message_size, nsubscriptions, nstats, msubscriptions,
                   nextMsg>>
    /\ UNCHANGED <<swarmVars, enhVars, docVars, mgrVars, readerVars, serVars, discVars, procVars>>

\* MessageSubscriptionManager::create_subscription: a new channel whose sender
\* is stored under the subject (HashMap::insert drops a sender stored there).
create_subscription(subject) ==
    /\ mchan' = Append(mchan, NewChannel("Manager", subject, "none", TRUE))
    /\ msubscriptions' = MapInsert(msubscriptions, subject, Len(mchan) + 1)
    /\ clast' = [op |-> "create_subscription", subject |-> subject,
                 chan |-> Len(mchan) + 1]
    /\ UNCHANGED <<component, closing, max_message_size, nsubscriptions, nstats, nextMsg>>
    /\ UNCHANGED <<swarmVars, enhVars, docVars, mgrVars, readerVars, serVars, discVars, procVars>>

\* send_message putting the message at the front of the channel's buffer.
send_message_front(subject, message) ==
    /\ nextMsg' = message.timestamp
    /\ IF subject \in DOMAIN msubscriptions
       THEN LET i == msubscriptions[subject]
            IN IF mchan[i].rxAlive
               THEN /\ mchan' = [mchan EXCEPT ![i].buf = <<message>> \o @]
                    /\ clast' = [op |-> "send_message", subject |-> subject,
                                 message |-> message, ret |-> "Ok"]
               ELSE /\ clast' = [op |-> "send_message", subject |-> subject,
                                 message |-> message, ret |-> "Err"]
                    /\ UNCHANGED mchan
       ELSE /\ clast' = [op |-> "send_message", subject |-> subject,
                         message |-> message, ret |-> "Ok"]
            /\ UNCHANGED mchan
    /\ UNCHANGED <<component, closing, max_message_size, nsubscriptions, nstats, msubscriptions>>
    /\ UNCHANGED <<swarmVars, enhVars, docVars, mgrVars, readerVars, serVars, discVars, procVars>>

\* MessageSubscriptionManager::send_message: sends on the sender stored under
\* the subject (an error when its receiver is gone); Ok without one.
send_message(subject, message) ==
    /\ nextMsg' = message.timestamp
    /\ IF subject \in DOMAIN msubscriptions
       THEN LET i == msubscriptions[subject]
            IN IF mchan[i].rxAlive
               THEN /\ mchan' = [mchan EXCEPT ![i].buf = Append(@, message)]
                    /\ clast' = [op |-> "send_message", subject |-> subject,
                                 message |-> message, ret |-> "Ok"]
               ELSE /\ clast' = [op |-> "send_message", subject |-> subject,
                                 message |-> message, ret |-> "Err"]
                    /\ UNCHANGED mchan
       ELSE /\ clast' = [op |-> "send_message", subject |-> subject,
                         message |-> message, ret |-> "Ok"]
            /\ UNCHANGED mchan
    /\ UNCHANGED <<component, closing, max_message_size, nsubscriptions, nstats, msubscriptions>>
    /\ UNCHANGED <<swarmVars, enhVars, docVars, mgrVars, readerVars, serVars, discVars, procVars>>

\* MessageSubscriptionManager::remove_subscription
remove_subscription(subject) ==
    /\ msubscriptions' = MapRemove(msubscriptions, subject)
    /\ mchan' = MarkClosed(mchan, "Manager", subject)
    /\ clast' = [op |-> "remove_subscription", subject |-> subject]
    /\ UNCHANGED <<component, closing, max_message_size, nsubscriptions, nstats, nextMsg>>
    /\ UNCHANGED <<swarmVars, enhVars, docVars, mgrVars, readerVars, serVars, discVars, procVars>>

----------------------------------------------------------------------------
(* SwarmDocumentReader (swarm-documents/src/document_reader.rs) on one watched
   directory.  The files are written by other programs; a scan runs between
   two writes. *)

\* The paths of the directory: [name, extension, hidden] as file_name() and
\* extension() give them.
Paths ==
    { [name |-> "a.txt", extension |-> "txt", hidden |-> FALSE],
      [name |-> "b.MD", extension |-> "MD", hidden |-> FALSE],
      [name |-> ".c.txt", extension |-> "txt", hidden |-> TRUE],
      [name |-> "d.bin", extension |-> "bin", hidden |-> FALSE] }

\* The configuration of the reader's tests.
supported_extensions == {"txt", "md"}
max_file_size == 1048576

\* str::to_lowercase on the extensions of the model.
to_lowercase(ext) == IF ext = "MD" THEN "md" ELSE ext

\* A path that does not exist.
NoFile == [mtime |-> 0, size_bytes |-> 0]

InitReader ==
    /\ files = [p \in Paths |-> NoFile]
    /\ fsClock = 0
    /\ processed_files = <<>>
    /\ rstats = [total_documents_read |-> 0, error_count |-> 0]
    /\ rlast = [op |-> "new"]

\* Another program creates or rewrites a file: its modification time is the
\* current time of the file system.
write_file(path, size) ==
    /\ fsClock' = fsClock + 1
    /\ files' = [files EXCEPT ![path] = [mtime |-> fsClock + 1, size_bytes |-> size]]
    /\ rlast' = [op |-> "write_file", path |-> path]
    /\ UNCHANGED <<processed_files, rstats>>
    /\ UNCHANGED <<swarmVars, enhVars, docVars, mgrVars, commsVars, serVars, discVars, procVars>>

is_supported_file(path) == to_lowercase(path.extension) \in supported_extensions

\* include_patterns is ["*"], exclude_patterns is [".*"].
matches_include_patterns(path) == TRUE
matches_exclude_patterns(path) == path.hidden

should_process_file(path) ==
    /\ is_supported_file(path)
    /\ matches_include_patterns(path)
    /\ ~matches_exclude_patterns(path)

\* is_new_or_modified_file with >= for >.
is_new_or_modified_file_inclusive(processed, path) ==
    IF path \in DOMAIN processed
    THEN files[path].mtime >= processed[path]
    ELSE TRUE

\* is_new_or_modified_file, given the map of processed files
is_new_or_modified_file(processed, path) ==
    IF path \in DOMAIN processed
    THEN files[path].mtime > processed[path]
    ELSE TRUE

\* read_document: the size check; Some(document) with the file's name, size
\* and modification time, or None for the error.
read_document(path) ==
    IF files[path].size_bytes > max_file_size
    THEN None
    ELSE Some([filename |-> path.name, size_bytes |-> files[path].size_bytes,
               modified_time |-> files[path].mtime])

\* The loop of scan_directory over the entries in the order read_dir gives
\* them, from entry i on: a file to process that is new or modified is read,
\* recorded in processed_files with its modification time and counted; a
\* failed read is counted as an error.  acc is [documents, processed, stats].
RECURSIVE ScanLoop(_, _, _)
ScanLoop(entries, i, acc) ==
    IF i > Len(entries) THEN acc
    ELSE LET path == entries[i]
         IN IF should_process_file(path) /\ is_new_or_modified_file(acc.processed, path)
            THEN LET document == read_document(path)
                 IN IF document # None
                    THEN ScanLoop(entries, i + 1,
                             [documents |-> Append(acc.documents, document[1]),
                              processed |-> MapInsert(acc.processed, path,
                                                      files[path].mtime),
                              stats |-> [acc.stats EXCEPT
                                            !.total_documents_read = @ + 1]])
                    ELSE ScanLoop(entries, i + 1,
                             [acc EXCEPT !.stats.error_count = @ + 1])
            ELSE ScanLoop(entries, i + 1, acc)

\* scan_directories on the one watched directory.
scan_directories(entries) ==
    ScanLoop(entries, 1, [documents |-> <<>>, processed |-> processed_files,
                          stats |-> rstats])

\* The files read_dir lists.
Existing == {p \in Paths : files[p] # NoFile}

\* get_next_document: scans and returns the first document found, if any.
get_next_document(entries) ==
    LET r == scan_directories(entries)
    IN /\ processed_files' = r.processed
       /\ rstats' = r.stats
       /\ rlast' = [op |-> "get_next_document",
                    ret |-> IF r.documents = <<>> THEN None ELSE Some(Head(r.documents)),
                    read |-> r.documents]
       /\ UNCHANGED <<files, fsClock>>
       /\ UNCHANGED <<swarmVars, enhVars, docVars, mgrVars, commsVars, serVars, discVars, procVars>>

\* One iteration of the loop of start(): scans and logs the documents found.
start_scan(entries) ==
    LET r == scan_directories(entries)
    IN /\ processed_files' = r.processed
       /\ rstats' = r.stats
       /\ rlast' = [op |-> "start_scan", read |-> r.documents]
       /\ UNCHANGED <<files, fsClock>>
       /\ UNCHANGED <<swarmVars, enhVars, docVars, mgrVars, commsVars, serVars, discVars, procVars>>

----------------------------------------------------------------------------
(* MessageSerializer and MessageValidator
   (swarm-comms/src/message_serialization.rs) with serde_json on the entities
   of swarm-core/src/types.rs.  A payload is the sequence of the JSON values
   serde_json writes, each as its text and counted as one byte; the first is
   the list of the field names of the struct. *)

\* The Uuids of the model and Uuid::to_string.
Uuids == 1..2
to_string(uuid) ==
    IF uuid = 1 THEN "00000000-0000-0000-0000-000000000001"
    ELSE "00000000-0000-0000-0000-000000000002"

\* The Debug text of a TaskPriority; a value of an enum of unit variants is
\* [enum, variant] and its Debug text is the name of the variant.
PriorityNames == <<"Low", "Normal", "High", "Critical">>

\* A text in quotes.
Quote(text) == "\"" \o text \o "\""

\* The JSON text serde_json writes for a value of a Rust type: a Uuid, a
\* String and a unit variant in quotes, an unsigned integer as its digits, a
\* finite f32 as a decimal number, an f32 that is NaN or infinite as null, None
\* as null.  A TaskPayload is the Vector variant with no or one f32; a
\* TaskResultData is a DocumentProcessingResult, kept as its sentiment.
RECURSIVE Json(_, _)
Json(type, x) ==
    LET digits == <<"0", "1", "2", "3", "4", "5", "6", "7", "8", "9">>
    IN CASE type = "Uuid" -> Quote(to_string(x))
         [] type = "String" -> Quote(x)
         [] type \in {"DocumentType", "TaskType", "TaskStatus", "WorkerStatus"} ->
                Quote(x.variant)
         [] type = "TaskPriority" -> Quote(PriorityNames[x])
         [] type = "u64" -> digits[x + 1]
         [] type = "f32" -> IF x.nan THEN "null" ELSE digits[x.v + 1] \o ".0"
         [] type = "Option<f32>" -> IF x = None THEN "null" ELSE Json("f32", x[1])
         [] type = "TaskPayload" ->
                IF x = <<>> THEN "{Vector:[]}"
                ELSE "{Vector:[" \o Json("f32", x[1]) \o "]}"
         [] type = "Option<TaskResultData>" ->
                IF x = None THEN "null"
                ELSE "{sentiment:" \o Json("Option<f32>", x[1]) \o "}"

\* The values serde_json can read as a Rust type: an f32 is read from a
\* number only, an Option from null or from what its content is read from.
RECURSIVE Readable(_)
Readable(type) ==
    CASE type = "Uuid" -> Uuids
      [] type = "String" -> {"a.txt", "hello"}
      [] type = "DocumentType" ->
             {[enum |-> "DocumentType", variant |-> v] : v \in {"Pdf", "Text"}}
      [] type = "TaskType" ->
             {[enum |-> "TaskType", variant |-> v] : v \in {"DocumentProcessing"}}
      [] type = "TaskStatus" ->
             {[enum |-> "TaskStatus", variant |-> v] : v \in {"Completed", "Failed"}}
      [] type = "WorkerStatus" ->
             {[enum |-> "WorkerStatus", variant |-> v] : v \in {"Idle", "Busy"}}
      [] type = "TaskPriority" -> DOMAIN PriorityNames
      [] type = "u64" -> 0..9
      [] type = "f32" -> {F32(v) : v \in 0..9}
      [] type = "Option<f32>" -> {None} \cup {Some(x) : x \in Readable("f32")}
      [] type = "TaskPayload" -> {<<>>} \cup {<<x>> : x \in Readable("f32")}
      [] type = "Option<TaskResultData>" ->
             {None} \cup {Some(o) : o \in Readable("Option<f32>")}

\* serde_json reading a text as a Rust type: Some(value) for Ok, None for Err.
Parse(type, text) ==
    IF \E x \in Readable(type) : Json(type, x) = text
    THEN Some(CHOOSE x \in Readable(type) : Json(type, x) = text)
    ELSE None

\* struct Document with a text content and no metadata.
Documents ==
    [id : Uuids, filename : {"a.txt"}, document_type : Readable("DocumentType"),
     content : {"hello"}, size_bytes : {5}]

\* struct Task with a TaskPayload::Vector whose f32 is finite or NaN.
SerializerTasks ==
    [id : Uuids, task_type : Readable("TaskType"), priority : {Low, Critical},
     payload : {<<>>, <<F32(1)>>, <<NaN>>}]

\* struct TaskResult; result is None or a DocumentProcessingResult whose
\* sentiment is None, finite or NaN.
TaskResults ==
    [task_id : Uuids, status : Readable("TaskStatus"),
     result : {None, Some(None), Some(Some(F32(1))), Some(Some(NaN))},
     processing_time_ms : {7}]

\* serde_json::to_vec of a Document, a Task and a TaskResult.
DocumentJson(document) ==
    <<"id,filename,document_type,content,size_bytes",
      Json("Uuid", document.id), Json("String", document.filename),
      Json("DocumentType", document.document_type),
      Json("String", document.content), Json("u64", document.size_bytes)>>
TaskJson(task) ==
    <<"id,task_type,priority,payload",
      Json("Uuid", task.id), Json("TaskType", task.task_type),
      Json("TaskPriority", task.priority), Json("TaskPayload", task.payload)>>
TaskResultJson(result) ==
    <<"task_id,status,result,processing_time_ms",
      Json("Uuid", result.task_id), Json("TaskStatus", result.status),
      Json("Option<TaskResultData>", result.result),
      Json("u64", result.processing_time_ms)>>

\* serde_json::from_slice::<Document>: Some(document) for Ok, None for Err.
DocumentFromJson(payload) ==
    IF Len(payload) # 6 THEN None
    ELSE IF payload[1] # "id,filename,document_type,content,size_bytes" THEN None
    ELSE LET id == Parse("Uuid", payload[2])
             filename == Parse("String", payload[3])
             ty == Parse("DocumentType", payload[4])
             content == Parse("String", payload[5])
             size == Parse("u64", payload[6])
         IN IF id = None \/ filename = None \/ ty = None \/ content = None
                 \/ size = None
            THEN None
            ELSE Some([id |-> id[1], filename |-> filename[1],
                       document_type |-> ty[1], content |-> content[1],
                       size_bytes |-> size[1]])

\* serde_json::from_slice::<Task>
TaskFromJson(payload) ==
    IF Len(payload) # 5 THEN None
    ELSE IF payload[1] # "id,task_type,priority,payload" THEN None
    ELSE LET id == Parse("Uuid", payload[2])
             ty == Parse("TaskType", payload[3])
             priority == Parse("TaskPriority", payload[4])
             data == Parse("TaskPayload", payload[5])
         IN IF id = None \/ ty = None \/ priority = None \/ data = None THEN None
            ELSE Some([id |-> id[1], task_type |-> ty[1],
                       priority |-> priority[1], payload |-> data[1]])

\* serde_json::from_slice::<TaskResult>
TaskResultFromJson(payload) ==
    IF Len(payload) # 5 THEN None
    ELSE IF payload[1] # "task_id,status,result,processing_time_ms" THEN None
    ELSE LET id == Parse("Uuid", payload[2])
             status == Parse("TaskStatus", payload[3])
             data == Parse("Option<TaskResultData>", payload[4])
             time == Parse("u64", payload[5])
         IN IF id = None \/ status = None \/ data = None \/ time = None THEN None
            ELSE Some([task_id |-> id[1], status |-> status[1],
                       result |-> data[1], processing_time_ms |-> time[1]])

InitSerializer ==
    /\ envelope = None
    /\ nextEnv = 0
    /\ slast = [op |-> "new"]

\* A message built with Uuid::new_v4() as id and Utc::now() as timestamp.
Built(op, input, subject, payload, headers, ttl_ms) ==
    /\ nextEnv < MaxEnvelopes
    /\ nextEnv' = nextEnv + 1
    /\ envelope' = Some([id |-> NewId(nextEnv + 1), subject |-> subject,
                         payload |-> payload, headers |-> headers,
                         timestamp |-> nextEnv + 1, ttl_ms |-> ttl_ms])
    /\ slast' = [op |-> op, input |-> input, ret |-> "Ok"]
    /\ UNCHANGED <<swarmVars, enhVars, docVars, mgrVars, commsVars, readerVars, discVars, procVars>>

\* The headers every serializer starts with.
ContentType == MapInsert(<<>>, "content-type", "application/json")

\* MessageSerializer::serialize_document
serialize_document(document) ==
    Built("serialize_document", document, "swarm.documents.incoming",
          DocumentJson(document),
          MapInsert(MapInsert(ContentType,
              "document-type", document.document_type.variant),
              "document-id", to_string(document.id)),
          Some(300000))

\* MessageSerializer::serialize_task
serialize_task(task) ==
    Built("serialize_task", task, "swarm.tasks.assignments", TaskJson(task),
          MapInsert(MapInsert(MapInsert(ContentType,
              "task-type", task.task_type.variant),
              "task-id", to_string(task.id)),
              "priority", PriorityNames[task.priority]),
          Some(600000))

\* serialize_task_result without the status header.
serialize_task_result_no_status(result) ==
    Built("serialize_task_result", result, "swarm.tasks.results",
          TaskResultJson(result),
          MapInsert(ContentType, "task-id", to_string(result.task_id)),
          Some(900000))

\* MessageSerializer::serialize_task_result
serialize_task_result(result) ==
    Built("serialize_task_result", result, "swarm.tasks.results",
          TaskResultJson(result),
          MapInsert(MapInsert(ContentType,
              "task-id", to_string(result.task_id)),
              "status", result.status.variant),
          Some(900000))

\* MessageSerializer::serialize_worker_status
serialize_worker_status(worker_id, status) ==
    Built("serialize_worker_status", [worker_id |-> worker_id, status |-> status],
          "swarm.workers.status", <<Json("WorkerStatus", status)>>,
          MapInsert(ContentType, "worker-id", to_string(worker_id)),
          Some(60000))

\* MessageSerializer::create_heartbeat; the payload is the JSON object of the
\* component, the time and the status "alive".
create_heartbeat(component_id, component_type) ==
    Built("create_heartbeat",
          [component_id |-> component_id, component_type |-> component_type],
          "swarm.heartbeat",
          <<"component_id,component_type,timestamp,status", Quote(component_id),
            Quote(component_type), Json("u64", nextEnv + 1), Quote("alive")>>,
          MapInsert(MapInsert(ContentType,
              "component-id", component_id),
              "component-type", component_type),
          Some(30000))

\* MessageSerializer::create_error_message with no context.
create_error_message(error_type, error_message, component_id) ==
    Built("create_error_message",
          [error_type |-> error_type, component_id |-> component_id],
          "swarm.errors",
          <<"error_type,error_message,component_id,context,timestamp",
            Quote(error_type), Quote(error_message), Quote(component_id), "null",
            Json("u64", nextEnv + 1)>>,
          MapInsert(MapInsert(ContentType,
              "error-type", error_type),
              "component-id", component_id),
          Some(1800000))

\* The greatest ttl_ms validate_message_ttl accepts.
OneHourMs == 3600000

\* A caller builds a Message itself, as the tests of the validator do.
build_message(subject, payload, ttl_ms) ==
    Built("build_message", ttl_ms, subject, payload, <<>>, ttl_ms)

\* A deserialize_* call on the last message: the entity or the error.
Deserialized(op, entity) ==
    /\ envelope # None
    /\ slast' = [op |-> op, message |-> envelope[1],
                 ret |-> IF entity = None THEN "Err" ELSE "Ok", value |-> entity]
    /\ UNCHANGED <<envelope, nextEnv>>
    /\ UNCHANGED <<swarmVars, enhVars, docVars, mgrVars, commsVars, readerVars, discVars, procVars>>

\* MessageSerializer::deserialize_document, _task, _task_result, _worker_status
deserialize_document ==
    Deserialized("deserialize_document", DocumentFromJson(envelope[1].payload))
deserialize_task ==
    Deserialized("deserialize_task", TaskFromJson(envelope[1].payload))
deserialize_task_result ==
    Deserialized("deserialize_task_result", TaskResultFromJson(envelope[1].payload))
deserialize_worker_status ==
    Deserialized("deserialize_worker_status",
                 IF Len(envelope[1].payload) # 1 THEN None
                 ELSE Parse("WorkerStatus", envelope[1].payload[1]))

\* A validate_* call on the last message.
Validated(op, ret) ==
    /\ envelope # None
    /\ slast' = [op |-> op, message |-> envelope[1], ret |-> ret, value |-> None]
    /\ UNCHANGED <<envelope, nextEnv>>
    /\ UNCHANGED <<swarmVars, enhVars, docVars, mgrVars, commsVars, readerVars, discVars, procVars>>

\* MessageValidator::validate_message
validate_message(message) ==
    IF message.subject = "" THEN "Err"
    ELSE IF message.payload = <<>> THEN "Err"
    ELSE IF message.id = NilId THEN "Err"
    ELSE "Ok"

\* validate_message_ttl with >= for > in the test of the upper bound.
validate_message_ttl_exclusive(message) ==
    IF message.ttl_ms # None
    THEN IF message.ttl_ms[1] = 0 THEN "Err"
         ELSE IF message.ttl_ms[1] >= OneHourMs THEN "Err"
         ELSE "Ok"
    ELSE "Ok"

\* MessageValidator::validate_message_ttl
validate_message_ttl(message) ==
    IF message.ttl_ms # None
    THEN IF message.ttl_ms[1] = 0 THEN "Err"
         ELSE IF message.ttl_ms[1] > OneHourMs THEN "Err"
         ELSE "Ok"
    ELSE "Ok"

----------------------------------------------------------------------------
(* FileDiscoveryService (swarm-documents/src/file_discovery.rs) with the
   configuration of its tests, on the watched directory of the reader.  The
   files are younger than max_file_age_hours. *)

InitDiscovery ==
    /\ discovered_files = <<>>
    /\ dstats = [total_files_discovered |-> 0, total_directories_scanned |-> 0]

\* should_discover_file: include_patterns is ["*"], exclude_patterns is
\* [".*", "*.tmp"], min_file_size is 1 and max_file_size 1 MiB.
should_discover_file(path, size_bytes) ==
    /\ ~path.hidden
    /\ path.extension # "tmp"
    /\ ~(size_bytes < 1 \/ size_bytes > max_file_size)

\* scan_all_directories: the FileInfo of every listed file to discover, in
\* the order read_dir lists the files.
scan_all_directories(entries) ==
    LET get_file_info(path) ==
            [path |-> path, filename |-> path.name,
             extension |-> to_lowercase(path.extension),
             size_bytes |-> files[path].size_bytes,
             modified_time |-> files[path].mtime]
        kept == SelectSeq(entries,
                    LAMBDA path : should_discover_file(path, files[path].size_bytes))
    IN [k \in DOMAIN kept |-> get_file_info(kept[k])]

\* update_stats: adds the number of the files given to it.
update_stats(stats, new_files) ==
    [stats EXCEPT !.total_files_discovered = @ + Len(new_files)]

\* One iteration of the loop of start(): scans, inserts what the scan gave
\* into discovered_files and updates the statistics with it.
discovery_start(entries) ==
    LET new_files == scan_all_directories(entries)
        scanned == [dstats EXCEPT !.total_directories_scanned = @ + 1]
    IN /\ IF new_files # <<>>
          THEN /\ discovered_files' =
                      [path \in DOMAIN discovered_files
                                    \cup {new_files[k].path : k \in DOMAIN new_files} |->
                          IF \E k \in DOMAIN new_files : new_files[k].path = path
                          THEN new_files[CHOOSE k \in DOMAIN new_files :
                                             new_files[k].path = path]
                          ELSE discovered_files[path]]
               /\ dstats' = update_stats(scanned, new_files)
          ELSE /\ dstats' = scanned
               /\ UNCHANGED discovered_files
       /\ rlast' = [op |-> "discovery_scan", read |-> new_files]
       /\ UNCHANGED <<files, fsClock, processed_files, rstats>>
       /\ UNCHANGED <<swarmVars, enhVars, docVars, mgrVars, commsVars, serVars, procVars>>

----------------------------------------------------------------------------
(* SwarmWorker::process_task (swarm-worker/src/lib.rs) on the tasks' payloads.
   An i64 is its two's complement form in four 16-bit limbs, least significant
   first.  The worker of the coordinator's model above processes tasks whose
   payload is left out; here the payload is kept and the worker is alone. *)

I64Values ==
    { <<0, 0, 0, 0>>, <<1, 0, 0, 0>>, <<21, 0, 0, 0>>, <<40000, 0, 0, 0>>,
      <<65535, 65535, 65535, 65535>>,          \* -1
      <<65535, 65535, 65535, 16383>>,          \* 2^62 - 1
      <<0, 0, 0, 16384>>,                      \* 2^62
      <<65535, 65535, 65535, 32767>>,          \* i64::MAX
      <<0, 0, 0, 49152>>,                      \* -2^62
      <<65535, 65535, 65535, 49151>>,          \* -2^62 - 1
      <<0, 0, 0, 32768>> }                     \* i64::MIN

\* payload.get("value"): the key is absent, or it holds a JSON string, a float,
\* an integer above i64::MAX (kept as u64), or an integer that fits an i64.
Payloads ==
    [kind : {"absent", "string", "float", "u64"}, limbs : {<<0, 0, 0, 32768>>}]
        \cup [kind : {"i64"}, limbs : I64Values]

ComputeTasks == [id : {1}, task_type : {"echo", "compute", "error", "other"},
                 payload : Payloads]

\* payload.get("value").and_then(|v| v.as_i64()).unwrap_or(0)
as_i64_or_0(payload) ==
    IF payload.kind = "i64" THEN payload.limbs ELSE <<0, 0, 0, 0>>

\* value * 2 in the machine: the low 64 bits of the product, and whether the
\* product left the range of i64 (bits 63 and 62 of value differ).
overflowing_mul2(value) ==
    LET d1 == 2 * value[1]
        d2 == 2 * value[2] + (d1 \div 65536)
        d3 == 2 * value[3] + (d2 \div 65536)
        d4 == 2 * value[4] + (d3 \div 65536)
    IN [wrapped |-> <<d1 % 65536, d2 % 65536, d3 % 65536, d4 % 65536>>,
        overflowed |-> (value[4] \div 32768) # ((value[4] \div 16384) % 2)]

\* value * 2 as the build compiles it: with overflow checks (the dev profile)
\* an overflow panics, without them (the release profile) the product wraps.
\* None stands for the panic.
mul2(value, checked) ==
    IF checked /\ overflowing_mul2(value).overflowed
    THEN None
    ELSE <<overflowing_mul2(value).wrapped>>

\* The match of process_task on the task type: the data of Ok(Some(..)), None
\* for Err(..).  "echo" returns the payload, "compute" {"result": value * 2}.
ProcessData(task, product) ==
    IF task.task_type = "echo" THEN <<[key |-> "value", val |-> task.payload]>>
    ELSE IF task.task_type = "compute"
    THEN <<[key |-> "result", val |-> [kind |-> "i64", limbs |-> product]]>>
    ELSE None

InitProcess ==
    /\ ptask = None
    /\ presult = None
    /\ pstatus = "Running"
    /\ ppc = "recv"
    /\ pdone = 0

\* The receive loop of start() takes a task; process_task sets the status Busy.
process_task_begin(task) ==
    /\ ppc = "recv"
    /\ ptask' = <<task>>
    /\ pstatus' = "Busy"
    /\ ppc' = "busy"
    /\ UNCHANGED <<overflow_checks, presult, pdone>>
    /\ UNCHANGED <<swarmVars, enhVars, docVars, mgrVars, commsVars, readerVars, serVars, discVars>>

\* The rest of process_task: the match on the task type, the status back to
\* Idle and the TaskResult.  A panic of value * 2 unwinds start(): the status
\* stays Busy, no result is built and the worker takes no further task.
process_task_end ==
    /\ ppc = "busy"
    /\ LET task == ptask[1]
           product == IF task.task_type = "compute"
                      THEN mul2(as_i64_or_0(task.payload), overflow_checks)
                      ELSE <<as_i64_or_0(task.payload)>>
       IN IF product = None
          THEN /\ ppc' = "panicked"
               /\ UNCHANGED <<presult, pstatus, pdone>>
          ELSE /\ ppc' = "recv"
               /\ pstatus' = "Idle"
               /\ presult' = <<[task_id |-> task.id,
                                status |-> ProcessStatus(task),
                                result |-> ProcessData(task, product[1])]>>
               /\ pdone' = pdone + 1
    /\ UNCHANGED <<overflow_checks, ptask>>
    /\ UNCHANGED <<swarmVars, enhVars, docVars, mgrVars, commsVars, readerVars, serVars, discVars>>

----------------------------------------------------------------------------
(* Specifications *)

NextSwarm ==
    \/ \E r \in RegisterInputs : register_worker(r.id, r.max)
    \/ \E w \in WorkerIds : unregister_worker(w)
    \/ \E t \in SubmitInputs :
           /\ Len(submitted) < MaxTasks
           /\ submit_task(Task(Len(submitted) + 1, t.ty, t.prio, t.maxr))
    \/ start
    \/ distribute_tasks
    \/ cancel_start
    \/ result_processor
    \/ \E c \in Chans : drop_receiver(c)
    \/ \E c \in Chans : worker_start(c)
    \/ \E c \in Chans : worker_recv(c)
    \/ \E c \in Chans : worker_finish(c)

NextEnhanced ==
    \/ \E w \in WorkerIds, cfg \in EWorkerConfigs : eregister_worker(w, cfg)
    \/ \E req \in ETaskRequirements :
           /\ enextTask < MaxETasks
           /\ esubmit_task(EnhancedTask(enextTask + 1, req))
    \/ \E order \in Orders(DOMAIN eworkers) : process_all_tasks(order)

NextDocWorker ==
    \E ty \in DocumentType, content \in Contents :
        process_document([document_type |-> ty, content |-> content])

\* The lifecycle of the workers: SwarmWorkers on the inboxes of a coordinator
\* that registers and unregisters them, with start() called on a worker any
\* number of times, and the instances of a WorkerManager.
NextLifecycle ==
    \/ \E r \in RegisterInputs : register_worker(r.id, r.max)
    \/ \E w \in WorkerIds : unregister_worker(w)
    \/ \E c \in Chans : worker_start(c)
    \/ \E c \in Chans : worker_recv(c)
    \/ \E c \in Chans : worker_start_again(c)
    \/ \E c \in Chans : worker_start_again_end(c)
    \/ \E n \in InstanceCounts :
           /\ Len(startup_configs) < MaxConfigs
           /\ add_worker_config(n)
    \/ /\ Len(StartInstances(startup_configs, 1, mworkers)) <= MaxInstances
       /\ start_all_workers
    \/ shutdown_all

NextComms ==
    \/ \E message \in MessagesAt(nextMsg + 1) :
           /\ component = "NatsBroker" /\ nextMsg < MaxMsgs
           /\ \E subject \in SubscribeSubjects : publish_message(subject, message)
    \/ \E p \in PublishInputs :
           /\ component = "NatsBroker" /\ nextMsg < MaxMsgs
           /\ publish(p.subject, p.payload)
    \/ \E subject \in SubscribeSubjects :
           /\ component = "NatsBroker" /\ nextMsg < MaxMsgs
           /\ foreign_publish(subject)
    \/ \E subject \in SubscribeSubjects :
           /\ component = "NatsBroker"
           /\ Cardinality(ChannelsOf("NatsBroker")) < MaxNatsSubs
           /\ subscribe_to_subject(subject)
    \/ \E i \in DOMAIN mchan : delivery_task(i)
    \/ \E subject \in SubscribeSubjects :
           /\ component = "NatsBroker"
           /\ unsubscribe(subject)
    \/ \E i \in DOMAIN mchan : next_message(i)
    \/ \E i \in DOMAIN mchan : drop_subscription(i)
    \/ \E subject \in SubscribeSubjects :
           /\ component = "Manager"
           /\ Cardinality(ChannelsOf("Manager")) < MaxSubs
           /\ create_subscription(subject)
    \/ \E message \in SendInputs(nextMsg + 1) :
           /\ component = "Manager" /\ nextMsg < MaxMsgs
           /\ \E subject \in SubscribeSubjects : send_message(subject, message)
    \/ \E subject \in SubscribeSubjects :
           /\ component = "Manager"
           /\ remove_subscription(subject)

NextReader ==
    \/ \E path \in Paths, size \in {12, max_file_size + 1} :
           /\ fsClock < MaxWrites
           /\ write_file(path, size)
    \/ \E entries \in Orders(Existing) :
           /\ rstats.error_count < MaxErrors
           /\ get_next_document(entries)
    \/ \E entries \in Orders(Existing) :
           /\ rstats.error_count < MaxErrors
           /\ start_scan(entries)

NextMessages ==
    \/ \E document \in Documents : serialize_document(document)
    \/ \E task \in SerializerTasks : serialize_task(task)
    \/ \E result \in TaskResults : serialize_task_result(result)
    \/ \E worker_id \in Uuids, status \in Readable("WorkerStatus") :
           serialize_worker_status(worker_id, status)
    \/ \E component_id \in {"worker-1"}, component_type \in {"worker", "reader"} :
           create_heartbeat(component_id, component_type)
    \/ create_error_message("timeout", "no answer", "worker-1")
    \/ \E subject \in {"", "t"}, payload \in {<<>>, <<"1">>}, ttl_ms \in
               {None, Some(0), Some(1), Some(OneHourMs), Some(OneHourMs + 1)} :
           build_message(subject, payload, ttl_ms)
    \/ deserialize_document
    \/ deserialize_task
    \/ deserialize_task_result
    \/ deserialize_worker_status
    \/ envelope # None /\ Validated("validate_message", validate_message(envelope[1]))
    \/ \E max_size \in {4, 100} :
           /\ envelope # None
           /\ Validated("validate_message_size",
                        validate_message_size(envelope[1], max_size))
    \/ envelope # None
           /\ Validated("validate_message_ttl", validate_message_ttl(envelope[1]))

\* SwarmWorker::start with the tasks of its channel, up to MaxProcessed results.
NextProcess ==
    \/ \E task \in ComputeTasks : pdone < MaxProcessed /\ process_task_begin(task)
    \/ process_task_end

NextDiscovery ==
    \/ \E path \in Paths, size \in {12, max_file_size + 1} :
           /\ fsClock < MaxWrites
           /\ write_file(path, size)
    \/ \E entries \in Orders(Existing) :
           /\ dstats.total_directories_scanned < MaxScans
           /\ discovery_start(entries)

\* The broker is used until close(self) takes it; close then runs alone.
NextClose ==
    \/ closing = "open" /\ NextComms
    \/ close
    \/ close_loop

\* Each specification starts its component from construction; the DocumentWorker
\* of the other specifications is the one built with no supported type.
InitSwarmSpec ==
    InitSwarm /\ InitEnhanced /\ InitDocWorker /\ supported_types = {}
        /\ InitManager /\ InitComms /\ component = "NatsBroker" /\ InitReader /\ InitSerializer /\ InitDiscovery
        /\ InitProcess /\ overflow_checks = FALSE
InitDocSpec ==
    InitSwarm /\ InitEnhanced /\ InitDocWorker /\ InitManager /\ InitComms
        /\ component = "NatsBroker" /\ InitReader /\ InitSerializer /\ InitDiscovery
        /\ InitProcess /\ overflow_checks = FALSE
InitCommsSpec ==
    InitSwarm /\ InitEnhanced /\ InitDocWorker /\ supported_types = {}
        /\ InitManager /\ InitComms /\ InitReader /\ InitSerializer /\ InitDiscovery
        /\ InitProcess /\ overflow_checks = FALSE

\* The worker of process_task is built with either profile.
InitProcessSpec ==
    InitSwarm /\ InitEnhanced /\ InitDocWorker /\ supported_types = {}
        /\ InitManager /\ InitComms /\ component = "NatsBroker" /\ InitReader
        /\ InitSerializer /\ InitDiscovery /\ InitProcess /\ overflow_checks \in BOOLEAN

SpecSwarm == InitSwarmSpec /\ [][NextSwarm]_vars
SpecEnhanced == InitSwarmSpec /\ [][NextEnhanced]_vars
SpecDocWorker == InitDocSpec /\ [][NextDocWorker]_vars
SpecLifecycle == InitSwarmSpec /\ [][NextLifecycle]_vars
SpecComms == InitCommsSpec /\ [][NextComms]_vars
SpecClose == InitCommsSpec /\ [][NextClose]_vars
FairClose == SpecClose /\ WF_vars(close_loop)
SpecReader == InitSwarmSpec /\ [][NextReader]_vars
SpecDiscovery == InitSwarmSpec /\ [][NextDiscovery]_vars
SpecProcess == InitProcessSpec /\ [][NextProcess]_vars
SpecMessages == InitSwarmSpec /\ [][NextMessages]_vars

\* The spawned tasks (the workers' receive loops and the result processor) are
\* scheduled by the runtime whenever they can make a step.
FairSwarm ==
    /\ SpecSwarm
    /\ \A c \in Chans : /\ WF_vars(worker_start(c))
                        /\ WF_vars(worker_recv(c))
                        /\ WF_vars(worker_finish(c))
    /\ WF_vars(result_processor)

\* The caller awaits start(), so the loop of distribute_tasks goes on whenever
\* it can make a step.
FairStart == FairSwarm /\ WF_vars(distribute_tasks)

----------------------------------------------------------------------------
(* Claims *)

Covers(w, task) == task.requirements.required_capabilities \subseteq eworkers[w].capabilities

\* C1: process_all_tasks never assigns a task to a worker that does not cover
\* all of its required capabilities while a registered worker covers them.
C1_NeverSelectsUncovering ==
    elast.op = "process_all_tasks" =>
        \A k \in DOMAIN elast.assigned :
            (\E w \in DOMAIN eworkers : Covers(w, elast.assigned[k].task))
                => Covers(elast.assigned[k].worker, elast.assigned[k].task)

\* The load of the worker on channel c: the tasks in its inbox and the one it
\* is processing.
Load(c) == Len(inbox[c]) + (IF wpc[c] = "busy" THEN 1 ELSE 0)

\* C2: a distribution step sends a task to a worker only if the worker's load
\* is below its max_concurrent_tasks.
C2_DispatchOnlyWithCapacity ==
    [][(lastOp'.op = "distribute" /\ lastOp'.sent # <<>>)
          => Load(lastOp'.chan) < workers[firstWorker].max_concurrent_tasks]_vars

\* C3: the task a distribution step dispatches has the highest priority of the
\* pending tasks.
C3_PriorityOrder ==
    [][(lastOp'.op = "distribute" /\ lastOp'.sent # <<>>)
          => \A i \in DOMAIN task_queue :
                 task_queue[i].priority <= lastOp'.sent[1].priority]_vars

\* No worker suits the task: find_best_worker_for_task yields None whatever the
\* iteration order (with no worker registered in particular).
NoWorkerSuits(task) ==
    \A order \in Orders(DOMAIN eworkers) : find_best_worker_for_task(order, task) = None

C5_FailedTaskRetried ==
    [][(lastOp'.op = "result" /\ lastOp'.status = "Failed")
          => LET t == submitted[lastOp'.task_id]
             IN t.retry_count < t.max_retries
                    => \E i \in DOMAIN task_queue' :
                           /\ task_queue'[i].id = t.id
                           /\ task_queue'[i].status = "Pending"
                           /\ task_queue'[i].retry_count = t.retry_count + 1]_vars

\* C6: 0 <= current_load <= max_concurrent_documents in every state reached by
\* process_document calls on a fresh worker.
C6_LoadWithinBounds ==
    /\ 0 <= current_load
    /\ current_load <= max_concurrent_documents

\* C6 witness: failing extractions have filled the worker and a call was
\* rejected for capacity.
C6_Witness ==
    /\ current_load = max_concurrent_documents
    /\ dlast.op = "process_document"
    /\ dlast.ret = "Err: is at capacity"

C8_UnregisterReturn ==
    [][lastOp'.op = "unregister_worker"
          => /\ lastOp'.ret = (lastOp'.id \in DOMAIN workers)
             /\ workers' = [w \in (DOMAIN workers) \ {lastOp'.id} |-> workers[w]]
             /\ task_queue' = task_queue]_vars

\* C8 witness: one of two workers was unregistered while tasks were pending.
C8_Witness ==
    /\ lastOp.op = "unregister_worker"
    /\ lastOp.ret
    /\ DOMAIN workers # {}
    /\ task_queue # <<>>

\* C9: register_worker with an id that is already registered leaves the
\* registry and the existing worker's inbox as they were.
C9_DuplicateRegisterRejected ==
    [][(lastOp'.op = "register_worker" /\ lastOp'.id \in DOMAIN workers)
          => /\ workers' = workers
             /\ txAlive'[workers[lastOp'.id].chan]]_vars

\* C10: with a worker that has capacity registered, a scheduling step never
\* leaves the task it considered unassigned when the task requires no
\* capability.
C10_EmptyRequirementsDispatched ==
    (/\ elast.op = "process_all_tasks"
     /\ elast.unassigned # <<>>
     /\ \E w \in DOMAIN eworkers : eworkers[w].max_concurrent_tasks > 0)
        => elast.unassigned[1].requirements.required_capabilities # {}

\* The lexicographic order of the worker ids of the model.
IdRank(w) == IF w = "w1" THEN 1 ELSE 2

\* The workers with the highest score for the task (every load being equal:
\* EnhancedCoordinator keeps none).
TopScorers(task) ==
    {w \in DOMAIN eworkers :
        \A v \in DOMAIN eworkers :
            ~FGt(calculate_worker_score(eworkers[v], task.requirements),
                 calculate_worker_score(eworkers[w], task.requirements))}

\* C11: the worker a scheduling step assigns a task to is the one with the
\* lowest id among the workers with the highest score, and is the one
\* find_best_worker_for_task yields under every iteration order of the map.
C11_DeterministicTieBreak ==
    elast.op = "process_all_tasks" =>
        \A k \in DOMAIN elast.assigned :
            LET a == elast.assigned[k]
            IN /\ \A w \in TopScorers(a.task) : IdRank(a.worker) <= IdRank(w)
               /\ \A order \in Orders(DOMAIN eworkers) :
                      find_best_worker_for_task(order, a.task) = Some(a.worker)

\* The score section 4.3 of the specification defines, in hundredths.
SpecScore(config, requirements) ==
    LET req == requirements.required_capabilities
        first == IF req = {} THEN CapabilityWeight
                 ELSE (CapabilityWeight * Cardinality(req \cap config.capabilities))
                          \div Cardinality(req)
        second == IF /\ requirements.preferred_worker_type # None
                     /\ requirements.preferred_worker_type[1] = config.worker_type
                  THEN TypeWeight ELSE 0
        third == IF \/ requirements.max_processing_time_ms = None
                    \/ config.avg_processing_time_ms
                           <= requirements.max_processing_time_ms[1]
                 THEN PerformanceWeight ELSE 0
    IN F32(first + second + third)

\* C12: for every registered worker and every pending task,
\* calculate_worker_score yields the score of section 4.3.
C12_ScoreFormula ==
    \A w \in DOMAIN eworkers : \A i \in DOMAIN etask_queue :
        calculate_worker_score(eworkers[w], etask_queue[i].requirements)
            = SpecScore(eworkers[w], etask_queue[i].requirements)

\* C20: a scheduling step assigns tasks in submission order (EnhancedTask ids
\* count the submissions; process_all_tasks reads neither task_type nor a
\* priority): no task is assigned before one submitted earlier, in the same
\* step or left pending by it.
C20_SubmissionOrder ==
    elast.op = "process_all_tasks" =>
        /\ \A k, l \in DOMAIN elast.assigned :
               k < l => elast.assigned[k].task.id < elast.assigned[l].task.id
        /\ \A k \in DOMAIN elast.assigned : \A i \in DOMAIN etask_queue :
               elast.assigned[k].task.id < etask_queue[i].id

C19_ShutdownTerminal ==
    [][ /\ \A c \in Chans : wstatus[c] = "Shutdown" => wstatus'[c] = "Shutdown"
        /\ \A k \in DOMAIN mworkers :
               mworkers[k] = "Shutdown" =>
                   k \in DOMAIN mworkers' /\ mworkers'[k] = "Shutdown" ]_vars

\* C13: publish_message (called directly or by publish) does not reject for
\* its size an envelope whose serialized size is exactly max_message_size,
\* rejects one that is one byte larger with MessageTooLarge{size, max_size},
\* and a rejected publish hands nothing to NATS, reaches no subscription and
\* leaves messages_sent unchanged.
C13_SizeLimit ==
    [][ (nextMsg' = nextMsg + 1 /\ clast'.op \in {"publish_message", "publish"}) =>
            LET size == to_vec(clast'.message).len
            IN /\ size = max_message_size => clast'.ret # "MessageTooLarge"
               /\ size = max_message_size + 1 =>
                      /\ clast'.ret = "MessageTooLarge"
                      /\ clast'.detail = <<size, max_message_size>>
               /\ clast'.ret = "MessageTooLarge" =>
                      /\ clast'.sent = <<>>
                      /\ mchan' = mchan
                      /\ nstats'.messages_sent = nstats.messages_sent ]_vars

\* publish_message has published an envelope of exactly max_message_size bytes
\* to a subscribed subject.
C13_Witness ==
    /\ clast.op = "publish_message"
    /\ to_vec(clast.message).len = max_message_size
    /\ clast.ret = "Ok"
    /\ nstats.messages_sent >= 1
    /\ \E i \in DOMAIN mchan : mchan[i].pending # <<>>

\* C14: every envelope publish or publish_message hands to NATS has a
\* non-empty subject, a non-empty payload and a non-nil id.
C14_PublishedEnvelopeValid ==
    (clast.op \in {"publish_message", "publish"} /\ clast.sent # <<>>) =>
        LET message == from_slice(clast.sent[1])[1]
        IN /\ message.subject # ""
           /\ message.payload # <<>>
           /\ message.id # NilId

\* C15: a new subscription on a subject (subscribe_to_subject or
\* create_subscription) closes no earlier subscription on it: a channel whose
\* receiver is held and that had a sender still has one afterwards.
C15_FanOut ==
    [][ (Len(mchan') = Len(mchan) + 1
            /\ clast'.op \in {"subscribe_to_subject", "create_subscription"}) =>
            \A i \in DOMAIN mchan :
                (/\ mchan[i].subject = clast'.subject
                 /\ mchan[i].rxAlive
                 /\ SenderAlive(mchan, nsubscriptions, msubscriptions, i))
                    => SenderAlive(mchan', nsubscriptions', msubscriptions', i) ]_vars

\* C16: the receiver of a subscription closed by unsubscribe(subject) or
\* remove_subscription(subject) never holds a message published after the
\* close.
C16_NoDeliveryAfterClose ==
    \A i \in DOMAIN mchan :
        mchan[i].closed # None =>
            \A k \in DOMAIN mchan[i].buf : mchan[i].buf[k].timestamp <= mchan[i].closed[1]

\* The messages on their way to the receiver of channel i, oldest first: the
\* buffered ones, then those NATS still holds for the delivery task.
RECURSIVE Decoded(_)
Decoded(pending) ==
    IF pending = <<>> THEN <<>>
    ELSE LET message == from_slice(Head(pending))
         IN (IF message = None THEN <<>> ELSE message) \o Decoded(Tail(pending))
InFlight(ch, i) == ch[i].buf \o Decoded(ch[i].pending)

\* C17: a subscription yields the messages of its source in the order they
\* were sent and no other message.  The messages on their way to a receiver
\* are in sending order; a receiver's buffer changes only by the message just
\* sent by send_message or the oldest message NATS holds for it put at its end,
\* by next_message yielding its first message, or by the receiver's drop; and
\* what NATS holds for a subscription grows only by the envelope just published.
C17_OrderedDelivery ==
    [][ \A i \in DOMAIN mchan :
          /\ mchan'[i] # mchan[i] =>
                 LET flight == InFlight(mchan', i)
                 IN \A j \in 1..(Len(flight) - 1) :
                        flight[j].timestamp < flight[j + 1].timestamp
          /\ mchan'[i].buf # mchan[i].buf =>
                 \/ /\ clast'.op = "send_message"
                    /\ clast'.subject = mchan[i].subject
                    /\ mchan'[i].buf = Append(mchan[i].buf, clast'.message)
                 \/ /\ clast'.op = "delivery_task" /\ clast'.chan = i
                    /\ mchan[i].pending # <<>>
                    /\ from_slice(Head(mchan[i].pending)) # None
                    /\ mchan'[i].buf = Append(mchan[i].buf,
                                              from_slice(Head(mchan[i].pending))[1])
                 \/ /\ clast'.op = "next_message" /\ clast'.chan = i
                    /\ clast'.ret = Some(Head(mchan[i].buf))
                    /\ mchan'[i].buf = Tail(mchan[i].buf)
                 \/ /\ clast'.op = "drop_subscription" /\ clast'.chan = i
                    /\ mchan'[i].buf = <<>>
          /\ Len(mchan'[i].pending) > Len(mchan[i].pending) =>
                 \/ /\ clast'.op \in {"publish_message", "publish"}
                    /\ clast'.subject = mchan[i].subject
                    /\ mchan'[i].pending =
                           Append(mchan[i].pending, to_vec(clast'.message))
                 \/ /\ clast'.op = "foreign_publish"
                    /\ mchan'[i].pending = Append(mchan[i].pending, Malformed) ]_vars

\* next_message has yielded the first of two messages sent to a subscription
\* and the second is still buffered.
C17_Witness ==
    /\ clast.op = "next_message"
    /\ clast.ret # None
    /\ clast.ret[1].timestamp = 1
    /\ mchan[clast.chan].buf # <<>>
    /\ mchan[clast.chan].buf[1].timestamp = 2

\* C21: start() called with at least one registered worker (and the tasks
\* submitted before it) eventually returns to its caller.
C21_StartTerminates ==
    (lastOp.op = "start" /\ lastOp.ran /\ DOMAIN workers # {}) ~> (coordPc = "idle")

\* C26: process_document on a document whose type is not supported returns the
\* "cannot process document type" error, also when the worker is at capacity;
\* on a supported type with the worker at capacity it returns the "is at
\* capacity" error; in both cases current_load and supported_types stay as
\* they were.
C26_RejectsWithoutEffect ==
    [][ dlast'.op = "process_document" =>
            LET document == dlast'.doc
            IN /\ document.document_type \notin supported_types =>
                      /\ dlast'.ret = "Err: cannot process document type"
                      /\ current_load' = current_load
                      /\ supported_types' = supported_types
               /\ (/\ document.document_type \in supported_types
                   /\ current_load >= max_concurrent_documents) =>
                      /\ dlast'.ret = "Err: is at capacity"
                      /\ current_load' = current_load
                      /\ supported_types' = supported_types ]_vars

\* A worker at capacity has rejected a document of a type it does not support.
C26_Witness ==
    /\ current_load >= max_concurrent_documents
    /\ dlast.op = "process_document"
    /\ dlast.doc.document_type \notin supported_types
    /\ dlast.ret = "Err: cannot process document type"

\* C29: a call of process_document leaves current_load at the value it had
\* before the call, whatever it returns.
C29_LoadRestored ==
    [][ dlast'.op = "process_document" => current_load' = current_load ]_vars

\* C30: a task leaves task_queue only by being sent to a worker's inbox: every
\* task queued before a step is queued after it or is in an inbox.
C30_QueuedUntilSent ==
    [][ \A i \in DOMAIN task_queue :
            \/ \E j \in DOMAIN task_queue' : task_queue'[j].id = task_queue[i].id
            \/ \E c \in Chans : \E j \in DOMAIN inbox'[c] :
                   inbox'[c][j].id = task_queue[i].id ]_vars

\* The sum of instance_count over the configurations.
RECURSIVE SumInstances(_)
SumInstances(configs) ==
    IF configs = <<>> THEN 0 ELSE Head(configs) + SumInstances(Tail(configs))

\* C27: after start_all_workers the manager is running and holds exactly the
\* sum of instance_count over the added configurations as workers (the
\* total_workers of get_stats), all of them Running.
C27_StartedInstances ==
    mlast.op = "start_all_workers" =>
        /\ is_running
        /\ Len(mworkers) = SumInstances(startup_configs)
        /\ \A k \in DOMAIN mworkers : mworkers[k] = "Running"

\* C28: the reader yields a file only if it has no record of it or the file's
\* modification time is later than the recorded one, and at most once in a
\* scan; a get_next_document call that finds no file to process new or
\* modified returns None and reads nothing.
C28_ReadOncePerModification ==
    [][ rlast'.op \in {"get_next_document", "start_scan"} =>
          /\ \A k \in DOMAIN rlast'.read :
                 \E path \in Paths :
                     /\ path.name = rlast'.read[k].filename
                     /\ should_process_file(path)
                     /\ files[path].mtime = rlast'.read[k].modified_time
                     /\ path \in DOMAIN processed_files =>
                            files[path].mtime > processed_files[path]
                     /\ \A j \in DOMAIN rlast'.read :
                            rlast'.read[j].filename = path.name => j = k
          /\ (/\ rlast'.op = "get_next_document"
              /\ \A path \in Existing :
                     (should_process_file(path) /\ path \in DOMAIN processed_files)
                         => files[path].mtime <= processed_files[path]
              /\ \A path \in Existing :
                     should_process_file(path) => path \in DOMAIN processed_files)
                 => rlast'.ret = None /\ rlast'.read = <<>> ]_vars

\* A second get_next_document, after every file was read and none was written
\* since, has returned None.
C28_Witness ==
    /\ rlast.op = "get_next_document"
    /\ rlast.ret = None
    /\ processed_files # <<>>
    /\ \E path \in DOMAIN processed_files : files[path].mtime = processed_files[path]

\* C23: an envelope that passes validate_message_size(message, max) is not
\* rejected as MessageTooLarge by publish_message on a broker whose
\* max_message_size is max.
C23_ValidatorAgreesWithPublisher ==
    (/\ clast.op = "publish_message"
     /\ validate_message_size(clast.message, max_message_size) = "Ok")
        => clast.ret # "MessageTooLarge"

\* C22: validate_message_ttl returns an error for a message whose ttl_ms is 0
\* or greater than 3_600_000 and Ok for a message without ttl_ms or with a
\* ttl_ms in 1..=3_600_000.
C22_TtlBounds ==
    slast.op = "validate_message_ttl" =>
        LET ttl_ms == slast.message.ttl_ms
        IN /\ (ttl_ms # None /\ (ttl_ms[1] = 0 \/ ttl_ms[1] > 3600000))
                  => slast.ret = "Err"
           /\ (ttl_ms = None \/ (ttl_ms # None /\ ttl_ms[1] \in 1..3600000))
                  => slast.ret = "Ok"

\* A message with a ttl_ms of exactly 3_600_000 was validated and accepted.
C22_Witness ==
    /\ slast.op = "validate_message_ttl"
    /\ slast.message.ttl_ms = Some(3600000)
    /\ slast.ret = "Ok"

\* C24: deserializing the message made by serializing a Document, a Task or a
\* TaskResult gives Ok with a value equal to the one serialized.
C24_RoundTrip ==
    [][ /\ (slast.op = "serialize_document" /\ slast'.op = "deserialize_document")
            => slast'.ret = "Ok" /\ slast'.value = Some(slast.input)
        /\ (slast.op = "serialize_task" /\ slast'.op = "deserialize_task")
            => slast'.ret = "Ok" /\ slast'.value = Some(slast.input)
        /\ (slast.op = "serialize_task_result" /\ slast'.op = "deserialize_task_result")
            => slast'.ret = "Ok" /\ slast'.value = Some(slast.input) ]_vars

\* A header of the message is present with the given text.
HasHeader(message, key, text) ==
    key \in DOMAIN message.headers /\ message.headers[key] = text

\* C25: every message MessageSerializer builds has the subject of its kind and
\* the required headers, whose values are the fields of the serialized entity:
\* document-id for a document, task-id and priority for a task, task-id and
\* status for a task result, worker-id for a worker status, component-id and
\* component-type for a heartbeat.
C25_SubjectAndHeaders ==
    LET message == envelope[1]
        x == slast.input
    IN /\ slast.op = "serialize_document" =>
              /\ message.subject = "swarm.documents.incoming"
              /\ "document-id" \in DOMAIN message.headers
              /\ Parse("Uuid", Quote(message.headers["document-id"])) = Some(x.id)
       /\ slast.op = "serialize_task" =>
              /\ message.subject = "swarm.tasks.assignments"
              /\ "task-id" \in DOMAIN message.headers
              /\ Parse("Uuid", Quote(message.headers["task-id"])) = Some(x.id)
              /\ HasHeader(message, "priority",
                     CASE x.priority = Low -> "Low" [] x.priority = Normal -> "Normal"
                       [] x.priority = High -> "High" [] OTHER -> "Critical")
       /\ slast.op = "serialize_task_result" =>
              /\ message.subject = "swarm.tasks.results"
              /\ "task-id" \in DOMAIN message.headers
              /\ Parse("Uuid", Quote(message.headers["task-id"])) = Some(x.task_id)
              /\ HasHeader(message, "status", x.status.variant)
       /\ slast.op = "serialize_worker_status" =>
              /\ message.subject = "swarm.workers.status"
              /\ "worker-id" \in DOMAIN message.headers
              /\ Parse("Uuid", Quote(message.headers["worker-id"])) = Some(x.worker_id)
       /\ slast.op = "create_heartbeat" =>
              /\ message.subject = "swarm.heartbeat"
              /\ HasHeader(message, "component-id", x.component_id)
              /\ HasHeader(message, "component-type", x.component_type)

\* A failed task result was serialized and its message says so in its header.
C25_Witness ==
    /\ slast.op = "serialize_task_result"
    /\ slast.input.status.variant = "Failed"
    /\ HasHeader(envelope[1], "status", "Failed")
    /\ envelope[1].subject = "swarm.tasks.results"

\* The number of places of the worker inboxes that hold the task with this id.
InboxCount(boxes, id) ==
    Cardinality({<<c, j>> \in Chans \X (1..(MaxTasks + 1)) :
                     j \in DOMAIN boxes[c] /\ boxes[c][j].id = id})

\* C31: each submitted task is delivered to at most one worker inbox and at
\* most once: a step adds a task to at most one place of one inbox, only a task
\* that is in the queue, and takes it from the queue; the tasks of the queue
\* have distinct ids, and a task that has left the queue does not come back.
C31_DeliveredAtMostOnce ==
    [][ /\ \A i, j \in DOMAIN task_queue' :
               task_queue'[i].id = task_queue'[j].id => i = j
        /\ \A i \in DOMAIN task_queue' :
               \/ \E j \in DOMAIN task_queue : task_queue[j].id = task_queue'[i].id
               \/ \A j \in DOMAIN submitted : submitted[j].id # task_queue'[i].id
        /\ \A k \in DOMAIN submitted :
               LET id == submitted[k].id
               IN /\ InboxCount(inbox', id) <= InboxCount(inbox, id) + 1
                  /\ InboxCount(inbox', id) > InboxCount(inbox, id) =>
                         /\ \E j \in DOMAIN task_queue : task_queue[j].id = id
                         /\ \A j \in DOMAIN task_queue' : task_queue'[j].id # id ]_vars

\* Two workers are registered, two tasks were submitted and a distribution has
\* put one of them into an inbox.
C31_Witness ==
    /\ Cardinality(DOMAIN workers) = 2
    /\ Len(submitted) = 2
    /\ lastOp.op = "distribute"
    /\ Len(lastOp.sent) = 1
    /\ InboxCount(inbox, lastOp.sent[1].id) = 1

\* C34: with two or more registered workers and an unchanged registry, two
\* successive dispatched tasks do not go to the same worker.
C34_RoundRobin ==
    [][ (/\ lastOp.op = "distribute" /\ lastOp.sent # <<>>
         /\ lastOp'.op = "distribute" /\ lastOp'.sent # <<>>
         /\ Cardinality(DOMAIN workers) >= 2
         /\ workers' = workers)
            => lastOp'.chan # lastOp.chan ]_vars

\* C37: when process_all_tasks returns, no registered worker is suitable for
\* any task still in the queue.
C37_OnlyUnsuitedLeft ==
    [][ elast'.op = "process_all_tasks"
            => \A j \in DOMAIN etask_queue' : NoWorkerSuits(etask_queue'[j]) ]_vars

\* C36: when the scan of a get_next_document call has found k >= 2 new files,
\* the next get_next_document call returns another of these documents, not
\* None.
C36_NoDocumentLost ==
    [][ (/\ rlast.op = "get_next_document"
         /\ Len(rlast.read) >= 2
         /\ rlast'.op = "get_next_document")
            => /\ rlast'.ret # None
               /\ rlast'.ret # rlast.ret
               /\ \E k \in DOMAIN rlast.read : rlast'.ret = Some(rlast.read[k]) ]_vars

\* C33: the active_subscriptions counter of the broker equals the number of
\* subjects tracked in its subscriptions map.
C33_CounterMatchesMap ==
    component = "NatsBroker" =>
        nstats.active_subscriptions = Cardinality(DOMAIN nsubscriptions)

\* The messages in the buffers of the broker's channels.
Forwarded(ch) ==
    LET RECURSIVE Sum(_)
        Sum(i) == IF i = 0 THEN 0 ELSE Len(ch[i].buf) + Sum(i - 1)
    IN Sum(Len(ch))

\* C35: a malformed envelope is dropped and counted: the delivery task adds one
\* to error_count, forwards nothing, leaves messages_received as it is and goes
\* on with the envelopes after it; messages_received grows by one exactly when
\* the task forwards an envelope to the receiver.
C35_MalformedDroppedAndCounted ==
    [][ /\ (/\ clast'.op = "delivery_task"
            /\ clast'.chan \in DOMAIN mchan
            /\ mchan'[clast'.chan].pending # mchan[clast'.chan].pending) =>
               LET i == clast'.chan
               IN /\ Head(mchan[i].pending) = Malformed =>
                         /\ nstats'.error_count = nstats.error_count + 1
                         /\ nstats'.messages_received = nstats.messages_received
                         /\ mchan'[i].buf = mchan[i].buf
                         /\ mchan'[i].task = "running"
                         /\ mchan'[i].pending = Tail(mchan[i].pending)
                  /\ nstats'.messages_received - nstats.messages_received
                         = Forwarded(mchan') - Forwarded(mchan)
        /\ nstats'.messages_received # nstats.messages_received
               => clast'.op = "delivery_task" ]_vars

\* After a malformed envelope was counted, the delivery task has forwarded a
\* later well-formed one.
C35_Witness ==
    /\ clast.op = "delivery_task"
    /\ clast.ret = "sent"
    /\ nstats.error_count = 1
    /\ nstats.messages_received = 1
    /\ Forwarded(mchan) = 1

\* C32: close() terminates, also with subscriptions tracked: once it has begun
\* it comes to mark the broker disconnected.
C32_CloseTerminates == (closing = "reading") ~> (closing = "closed")

\* C38: total_files_discovered equals the number of distinct files held in
\* discovered_files.
C38_DiscoveredCount ==
    dstats.total_files_discovered = Cardinality(DOMAIN discovered_files)

\* Sign extension of an i64 by one limb, and twice an i64 as the integer it
\* is, in five limbs.
SignExtend(v) == Append(v, IF v[4] >= 32768 THEN 65535 ELSE 0)
Twice(v) ==
    LET w == SignExtend(v)
        c == [i \in 0..5 |-> IF i = 0 THEN 0 ELSE IF 2 * w[i] >= 65536 THEN 1 ELSE 0]
    IN [i \in 1..5 |-> ((2 * w[i]) % 65536) + c[i - 1]]

\* C39: process_task on a "compute" task ends with a Completed result whose
\* result field is twice payload.value (twice 0 when value is absent or no
\* i64), as integers; the worker does not abort.
C39_ComputeDoubles ==
    [][ (ppc = "busy" /\ ppc' # "busy" /\ ptask[1].task_type = "compute") =>
            /\ ppc' = "recv"
            /\ presult' # None
            /\ presult'[1].status = "Completed"
            /\ presult'[1].result # None
            /\ presult'[1].result[1].key = "result"
            /\ SignExtend(presult'[1].result[1].val.limbs)
                   = Twice(as_i64_or_0(ptask[1].payload)) ]_vars

====
